---- MODULE Spec2Model ----
(***************************************************************************)
(* Crawl/scrape engine of mbapy.web_utils.spider: page nodes (PagePage,    *)
(* UrlIdxPagesPage, DownloadPage, ItemsPage), the AsyncResult handle and   *)
(* the coroutine pool they share.  The orchestrating thread is modelled by *)
(* a call stack; the pool completes tasks concurrently with it.  The       *)
(* status queue of mbapy.web_utils.task, with its main and input threads,  *)
(* is modelled beside it and runs under TaskSpec.                          *)
(***************************************************************************)
EXTENDS Integers, Sequences, FiniteSets, TLC

VARIABLES
    async_task_pool,  \* the CoroutinePool: [tasks]
    files,            \* file system: the set of paths that exist
    async_results,    \* heap of AsyncResult objects, by reference
    pages,            \* heap of page nodes, by reference
    actions,          \* the Actions instance: [pages, headers, results, pool]
    stack,            \* call stack of the orchestrating thread (top = last)
    calls,            \* top-level calls made so far (bounds the exploration)
    first_got,        \* per AsyncResult: what its first completed get() returned
    trace,            \* what the current run of Actions.perform did, in order
    driver,           \* the caller: performs nodes itself, or runs the Actions
    other_actions,    \* an Actions instance constructed later, None before
    statuesQue,       \* task.py: the module-level status queue, oldest first
    threads,          \* task.py: the frame of the main thread and of each sub-thread
    task_log,         \* task.py: what the threads did so far (observation only)
    ev                \* what the last step did (observation only)

\* the state of mbapy.web_utils.task
task_vars == <<statuesQue, threads, task_log>>

vars == <<async_task_pool, files, async_results, pages, actions, stack, calls, first_got,
          trace, driver, other_actions, task_vars, ev>>

---------------------------------------------------------------------------
(* Bounds of the exploration *)
MaxCalls == 3     \* top-level calls (perform, get) of one run
MaxK == 2         \* index pages a url_fn serves
MaxTasks == 3     \* tasks the pool accepts before the exploration stops
MaxDepth == 3     \* nested _perform calls the interpreter's recursion limit allows

---------------------------------------------------------------------------
(* Python values.  A str is a sequence of tokens, so that basename, join   *)
(* and sanitising are computed and not assumed.                            *)
None == [t |-> "None"]
Str(s) == [t |-> "str", s |-> s]
Ref(a) == [t |-> "AsyncResult", id |-> a]
Tuple(v) == [t |-> "tuple", v |-> v]
List(v) == [t |-> "list", v |-> v]
Element(d, tag, i) == [t |-> "Element", doc |-> d, tag |-> tag, i |-> i]
\* a bs4 Tag: the i-th tag of that name in the document
Tag(d, tag, i) == [t |-> "Tag", doc |-> d, tag |-> tag, i |-> i]
Unbound == [t |-> "unbound"]

\* members of the TaskStatus enum that spider.py names
TaskStatus(m) == [t |-> "TaskStatus", m |-> m]
NOT_RETURNED == TaskStatus("NOT_RETURNED")
NOT_FINISHED == TaskStatus("NOT_FINISHED")
NOT_SUCCEED == TaskStatus("NOT_SUCCEED")
NOT_SUCCEEDED == TaskStatus("NOT_SUCCEEDED")

U1 == <<"a", "/", "f1">>
U2 == <<"b", "/", "f1">>
U3 == <<"a", "/", "f", "?", "2">>
URLs == {U1, U2, U3}

\* what the web serves for a url: the page text, or no page (status # 200)
Web(url) ==
    IF url = U1 THEN <<"<doc1>">>
    ELSE IF url = U2 THEN <<"<doc2>">>
    ELSE <<"<doc3>">>

RECURSIVE SumLen(_)
SumLen(ss) == IF ss = <<>> THEN 0 ELSE Len(Head(ss)) + SumLen(Tail(ss))

RECURSIVE Flatten(_)
Flatten(ss) == IF ss = <<>> THEN <<>> ELSE Head(ss) \o Flatten(Tail(ss))

Range(s) == {s[i] : i \in 1..Len(s)}

---------------------------------------------------------------------------
(* The task pool (CoroutinePool): submit / query / run.                    *)

\* add_task(None, fn, *args): the task is queued under a fresh name
add_task(pool, fn, args) ==
    [pool EXCEPT !.tasks = Append(@, [fn |-> fn, args |-> args, result |-> NOT_FINISHED])]

TaskName(pool) == Len(pool.tasks)

\* query_task(name): NOT_FINISHED while pending, else what the coroutine returned
query_task(pool, name) == pool.tasks[name].result

\* get_web_html_async(url, headers): the text, or a failure marker tuple
\* (status # 200; an exception gives a tuple of the same form)
get_web_html_async(url, outcome) ==
    IF outcome # "200" THEN Tuple(<<NOT_SUCCEED, "Web error">>)
    ELSE IF url.t = "str" /\ url.s \in URLs THEN Str(Web(url.s))
    ELSE Tuple(<<NOT_SUCCEED, "Error occurred">>)

\* retrieve_file_async(url, file_path, headers): writes the file and returns
\* its path on status 200, else a failure marker tuple and no file
retrieve_file_async(url, file_path, outcome) ==
    IF outcome # "200" THEN Tuple(<<NOT_SUCCEED, "Web error">>)
    ELSE IF url.t = "str" /\ url.s \in URLs THEN file_path
    ELSE Tuple(<<NOT_SUCCEED, "Error occurred">>)

Outcomes == {"200", "404"}

\* the coroutine of task `name` runs to its end with the given outcome
RunTask(pool, name, outcome) ==
    LET task == pool.tasks[name]
        r == IF task.fn = "retrieve_file_async"
             THEN retrieve_file_async(task.args[1], task.args[2], outcome)
             ELSE get_web_html_async(task.args[1], outcome)
    IN  [pool EXCEPT !.tasks[name].result = r]

IsPending(pool, name) == pool.tasks[name].result = NOT_FINISHED

---------------------------------------------------------------------------
(* AsyncResult                                                             *)

\* AsyncResult(async_pool, name): result starts as NOT_RETURNED
AsyncResult(name) == [name |-> name, result |-> NOT_RETURNED]

Top == stack[Len(stack)]
Pop == SubSeq(stack, 1, Len(stack) - 1)
Idle == stack = <<>>

NoEvent == [type |-> "none"]

---------------------------------------------------------------------------
(* Page nodes                                                              *)

\* a url configuration as PagePage.__init__ receives it: None, a flat list
\* of str (form "flat": url[0] is a str) or a list of lists (form "nested")
UrlNone == [form |-> "None", flat |-> <<>>, v |-> <<>>]
UrlFlat(v) == [form |-> "flat", flat |-> v, v |-> <<>>]
UrlNested(v) == [form |-> "nested", flat |-> <<>>, v |-> v]

\* BasePage.__init__
BasePage(kind, xpath, findall_fn, ignore_records) ==
    [kind |-> kind, name |-> "", xpath |-> xpath, findall_fn |-> findall_fn,
     async_task_pool |-> "unset", headers |-> "none",
     result |-> <<>>, father_page |-> 0, next_pages |-> <<>>,
     before_func |-> "None", after_func |-> "None",
     ignore_records |-> ignore_records,
     records |-> {},
     url |-> UrlNone, web_get_fn |-> "None", kwargs_headers |-> "unset",
     url_fn |-> [urls |-> <<>>, stop |-> None],
     folder |-> <<>>, wait_all |-> FALSE, skip_downloaded |-> FALSE,
     page_folder_name |-> None, item_file_name |-> None,
     alternative_bs4 |-> FALSE, single_page_items_fn |-> "identity"]

\* PagePage.__init__
PagePage(url, ignore_records) ==
    [BasePage("PagePage", <<>>, "None", ignore_records) EXCEPT !.url = url]

\* PagePage.__init__ with web_get_fn given: a fetch function of the caller
WithWebGetFn(p, fn) == [p EXCEPT !.web_get_fn = fn]

\* UrlIdxPagesPage.__init__: the url list starts as []
UrlIdxPagesPage(url_fn, ignore_records) ==
    [PagePage(UrlNested(<<>>), ignore_records) EXCEPT
        !.kind = "UrlIdxPagesPage", !.url_fn = url_fn]

\* DownloadPage.__init__
DownloadPage(url, folder, wait_all, skip_downloaded, ignore_records) ==
    [PagePage(url, ignore_records) EXCEPT
        !.kind = "DownloadPage", !.folder = folder, !.wait_all = wait_all,
        !.skip_downloaded = skip_downloaded]

\* ItemsPage.__init__
ItemsPage(xpath, findall_fn, alternative_bs4, single_page_items_fn) ==
    [BasePage("ItemsPage", xpath, findall_fn, FALSE) EXCEPT
        !.alternative_bs4 = alternative_bs4,
        !.single_page_items_fn = single_page_items_fn]

\* PagePage._process_url: the url source of this parse call
\* _process_url with every url of a flat list made a page of its own
PagePage_process_url_each(p, results) ==
    IF p.url = UrlNone
    THEN IF results = None THEN pages[p.father_page].result ELSE results.v
    ELSE IF p.url.form = "flat" /\ Len(p.url.flat) > 0
         THEN [i \in 1..Len(p.url.flat) |-> <<p.url.flat[i]>>]
         ELSE p.url.v

\* _process_url with the input of the caller preferred to the node's urls
PagePage_process_url_input(p, results) ==
    IF results # None THEN results.v
    ELSE IF p.url = UrlNone THEN pages[p.father_page].result
    ELSE IF p.url.form = "flat" /\ Len(p.url.flat) > 0
         THEN <<p.url.flat>>
         ELSE p.url.v

\* PagePage._process_url, lines 192-202: the url source of this parse call
PagePage_process_url(p, results) ==
    IF p.url = UrlNone
    THEN IF results = None THEN pages[p.father_page].result ELSE results.v
    ELSE IF p.url.form = "flat" /\ Len(p.url.flat) > 0
         THEN <<p.url.flat>>
         ELSE p.url.v

\* lines 211-213 / 288-290 without the assignment of the headers
SetWebGetFn_only(p, default) ==
    IF p.web_get_fn = "None"
    THEN [p EXCEPT !.web_get_fn = default]
    ELSE p

\* lines 211-213 / 288-290: the default fetch function and its headers
SetWebGetFn(p, default) ==
    IF p.web_get_fn = "None"
    THEN [p EXCEPT !.web_get_fn = default, !.kwargs_headers = p.headers]
    ELSE p

\* line 220 with `and` for `or`
NotRecorded_and(p, url) == url \notin p.records /\ p.ignore_records

\* line 220: is this url fetched?
NotRecorded(p, url) == url \notin p.records \/ p.ignore_records

\* lines 219-226 with each AsyncResult put at the front of its bucket
RECURSIVE PagePage_items_front(_, _)
PagePage_items_front(st, page) ==
    IF page = <<>> THEN st
    ELSE LET url == Head(page)
             p == st.p
         IN  IF NotRecorded(p, url)
             THEN LET pool == add_task(st.pool, p.web_get_fn,
                                       <<url, p.kwargs_headers>>)
                      a == Len(st.ars) + 1
                      n == Len(p.result)
                  IN  PagePage_items_front(
                        [p |-> [p EXCEPT !.result[n] = <<Ref(a)>> \o @,
                                         !.records = @ \cup {url}],
                         pool |-> pool,
                         ars |-> Append(st.ars, AsyncResult(TaskName(pool)))],
                        Tail(page))
             ELSE PagePage_items_front(st, Tail(page))

\* lines 219-226 with the pool asked once for each task just submitted
RECURSIVE PagePage_items_query(_, _)
PagePage_items_query(st, page) ==
    IF page = <<>> THEN st
    ELSE LET url == Head(page)
             p == st.p
         IN  IF NotRecorded(p, url)
             THEN LET pool == add_task(st.pool, p.web_get_fn,
                                       <<url, p.kwargs_headers>>)
                      a == Len(st.ars) + 1
                      n == Len(p.result)
                      r == [AsyncResult(TaskName(pool)) EXCEPT
                               !.result = query_task(pool, TaskName(pool))]
                  IN  PagePage_items_query(
                        [p |-> [p EXCEPT !.result[n] = Append(@, Ref(a)),
                                         !.records = @ \cup {url}],
                         pool |-> pool,
                         ars |-> Append(st.ars, r)],
                        Tail(page))
             ELSE PagePage_items_query(st, Tail(page))

\* lines 219-226: the urls of one page, in order.  st = [p, pool, ars]
RECURSIVE PagePage_items(_, _)
PagePage_items(st, page) ==
    IF page = <<>> THEN st
    ELSE LET url == Head(page)
             p == st.p
         IN  IF NotRecorded(p, url)
             THEN LET pool == add_task(st.pool, p.web_get_fn,
                                       <<url, p.kwargs_headers>>)
                      a == Len(st.ars) + 1
                      n == Len(p.result)
                  IN  PagePage_items(
                        [p |-> [p EXCEPT !.result[n] = Append(@, Ref(a)),
                                         !.records = @ \cup {url}],
                         pool |-> pool,
                         ars |-> Append(st.ars, AsyncResult(TaskName(pool)))],
                        Tail(page))
             ELSE PagePage_items(st, Tail(page))

\* lines 215-218: one new bucket per page of the url source
RECURSIVE PagePage_pages(_, _)
PagePage_pages(st, results) ==
    IF results = <<>> THEN st
    ELSE PagePage_pages(
            PagePage_items([st EXCEPT !.p.result = Append(@, <<>>)], Head(results)),
            Tail(results))

\* PagePage.parse starting from an empty result list
PagePage_parse_reset(p, results, pool, ars) ==
    PagePage_pages([p |-> [SetWebGetFn(p, "get_web_html_async") EXCEPT !.result = <<>>],
                    pool |-> pool, ars |-> ars],
                   PagePage_process_url(p, results))

\* PagePage.parse with one record set for all the pages of the forest
PagePage_parse_shared(p, results, pool, ars) ==
    PagePage_pages([p |-> [SetWebGetFn(p, "get_web_html_async") EXCEPT
                              !.records = UNION {pages[i].records : i \in 1..Len(pages)}],
                    pool |-> pool, ars |-> ars],
                   PagePage_process_url(p, results))

\* PagePage.parse
PagePage_parse(p, results, pool, ars) ==
    PagePage_pages([p |-> SetWebGetFn(p, "get_web_html_async"),
                    pool |-> pool, ars |-> ars],
                   PagePage_process_url(p, results))

\* url_fn(base_url, idx): the urls of the index pages, then '' or None
UrlFn(p, idx) ==
    IF idx < Len(p.url_fn.urls) THEN Str(p.url_fn.urls[idx + 1]) ELSE p.url_fn.stop

\* lines 249-258: the loop over idx; returns the page with the urls appended
\* and the indices url_fn was called with
RECURSIVE UrlIdx_loop(_, _, _)
UrlIdx_loop(p, idx, called) ==
    LET url == UrlFn(p, idx)
    IN  IF url = Str(<<>>) \/ url = None
        THEN [p |-> p, called |-> Append(called, idx)]
        ELSE UrlIdx_loop([p EXCEPT !.url.v = Append(@, <<url>>)],
                         idx + 1, Append(called, idx))

\* UrlIdxPagesPage.parse that starts from an empty url list at every call
UrlIdxPagesPage_parse_fresh(p, results, pool, ars) ==
    PagePage_parse(UrlIdx_loop([p EXCEPT !.url.v = <<>>], 0, <<>>).p, None, pool, ars)

\* UrlIdxPagesPage.parse: the results argument is dropped (super().parse())
UrlIdxPagesPage_parse(p, results, pool, ars) ==
    PagePage_parse(UrlIdx_loop(p, 0, <<>>).p, None, pool, ars)

---------------------------------------------------------------------------
(* Actions: the forest.  A dict is a sequence of [k, v] entries in         *)
(* insertion order, with unique keys.                                      *)

DictHas(d, k) == \E i \in 1..Len(d) : d[i].k = k
DictGet(d, k) == d[CHOOSE i \in 1..Len(d) : d[i].k = k].v
DictSet(d, k, v) ==
    IF DictHas(d, k)
    THEN [i \in 1..Len(d) |-> IF d[i].k = k THEN [k |-> k, v |-> v] ELSE d[i]]
    ELSE Append(d, [k |-> k, v |-> v])

\* _extract as a walk that tests each entry's key and then goes below that
\* entry before it looks at the next key of the level
RECURSIVE extract_preorder(_, _, _, _)
extract_preorder(heap, n, d, i) ==
    IF i > Len(d) THEN 0
    ELSE IF d[i].k = n THEN d[i].v
    ELSE LET ret == extract_preorder(heap, n, heap[d[i].v].next_pages, 1)
         IN  IF ret # 0 THEN ret ELSE extract_preorder(heap, n, d, i + 1)

\* Actions.get_page._extract: 0 stands for None
RECURSIVE extract(_, _, _, _)
extract(heap, n, d, i) ==
    IF DictHas(d, n) THEN DictGet(d, n)
    ELSE IF i > Len(d) THEN 0
    ELSE LET ret == extract(heap, n, heap[d[i].v].next_pages, 1)
         IN  IF ret # 0 THEN ret ELSE extract(heap, n, d, i + 1)

\* Actions.get_page(name, father_pages)
get_page(heap, name, father_pages) == extract(heap, name, father_pages, 1)

\* add_page without lines 462-463: the page keeps the pool and headers it has
add_page_bare(st, page, father, name, before_func, after_func) ==
    LET f == IF father # "" THEN get_page(st.pages, father, st.actions.pages) ELSE 0
        wired == [st.pages EXCEPT
                    ![page].before_func = before_func,
                    ![page].after_func = after_func,
                    ![page].name = name]
    IN  IF f = 0
        THEN [pages |-> wired,
              actions |-> [st.actions EXCEPT !.pages = DictSet(@, name, page)]]
        ELSE [pages |-> [wired EXCEPT ![f].next_pages = DictSet(@, name, page),
                                      ![page].father_page = f],
              actions |-> st.actions]

\* add_page that gives up when the forest has no node of the father's name
add_page_strict(st, page, father, name, before_func, after_func) ==
    LET f == IF father # "" THEN get_page(st.pages, father, st.actions.pages) ELSE 0
        wired == [st.pages EXCEPT
                    ![page].before_func = before_func,
                    ![page].after_func = after_func,
                    ![page].name = name,
                    ![page].async_task_pool = st.actions.async_task_pool,
                    ![page].headers = st.actions.headers]
    IN  IF father # "" /\ f = 0
        THEN st
        ELSE IF f = 0
        THEN [pages |-> wired,
              actions |-> [st.actions EXCEPT !.pages = DictSet(@, name, page)]]
        ELSE [pages |-> [wired EXCEPT ![f].next_pages = DictSet(@, name, page),
                                      ![page].father_page = f],
              actions |-> st.actions]

\* Actions.add_page(page, father, name, before_func, after_func), lines 454-469;
\* st = [pages, actions], page is a reference into st.pages
add_page(st, page, father, name, before_func, after_func) ==
    LET f == IF father # "" THEN get_page(st.pages, father, st.actions.pages) ELSE 0
        wired == [st.pages EXCEPT
                    ![page].before_func = before_func,
                    ![page].after_func = after_func,
                    ![page].name = name,
                    ![page].async_task_pool = st.actions.async_task_pool,
                    ![page].headers = st.actions.headers]
    IN  IF f = 0
        THEN [pages |-> wired,
              actions |-> [st.actions EXCEPT !.pages = DictSet(@, name, page)]]
        ELSE [pages |-> [wired EXCEPT ![f].next_pages = DictSet(@, name, page),
                                      ![page].father_page = f],
              actions |-> st.actions]

\* Actions.__init__
Actions_init ==
    [pages |-> <<>>, headers |-> "User-Agent", results |-> None,
     async_task_pool |-> "shared"]

---------------------------------------------------------------------------
(* AsyncResult.get, lines 71-82.  GetEnter is the call up to the first     *)
(* test of the while condition; GetLoop is one iteration of the loop.      *)
(* Both give [ars, queried, returned, value].                              *)

\* get() without the short cut of lines 74-75
GetEnter_requery(ars, pool, a) ==
    LET r == query_task(pool, ars[a].name)
    IN  [ars |-> [ars EXCEPT ![a].result = r], queried |-> TRUE,
         returned |-> r # NOT_FINISHED, value |-> r]

GetEnter(ars, pool, a) ==
    IF ars[a].result # NOT_RETURNED
    THEN [ars |-> ars, queried |-> FALSE, returned |-> TRUE, value |-> ars[a].result]
    ELSE LET r == query_task(pool, ars[a].name)
         IN  [ars |-> [ars EXCEPT ![a].result = r], queried |-> TRUE,
              returned |-> r # NOT_FINISHED, value |-> r]

\* a loop that is left after one pass whatever the pool answered
GetLoop_once(ars, pool, a) ==
    LET r == query_task(pool, ars[a].name)
    IN  [ars |-> [ars EXCEPT ![a].result = r], queried |-> TRUE,
         returned |-> TRUE, value |-> r]

\* a loop whose body does not ask the pool again
GetLoop_stale(ars, pool, a) ==
    [ars |-> ars, queried |-> FALSE,
     returned |-> ars[a].result # NOT_FINISHED, value |-> ars[a].result]

GetLoop(ars, pool, a) ==
    LET r == query_task(pool, ars[a].name)
    IN  [ars |-> [ars EXCEPT ![a].result = r], queried |-> TRUE,
         returned |-> r # NOT_FINISHED, value |-> r]

\* what a step of get() did; looped tells a pass of the loop from the entry
GetEvent(a, g, looped) ==
    [type |-> "get", ar |-> a, queried |-> g.queried, returned |-> g.returned,
     value |-> g.value, looped |-> looped]

NoteGot(a, g) ==
    IF g.returned /\ first_got[a] = None
    THEN [first_got EXCEPT ![a] = g.value]
    ELSE first_got

\* the frame of a get() that is inside its polling loop
GetFrame(a) == [op |-> "get", ar |-> a]

\* a value comes back to the frame that called get(): an ItemsPage.parse
\* frame takes it as its item r; at top level it is dropped
Deliver(frames, v) ==
    IF frames = <<>> THEN frames
    ELSE [frames EXCEPT ![Len(frames)].r = v, ![Len(frames)].pc = "got"]

---------------------------------------------------------------------------
(* The pool's side: a pending task runs to its end.                        *)

WritesFile(task, outcome) ==
    /\ task.fn = "retrieve_file_async"
    /\ outcome = "200"
    /\ task.args[1].t = "str" /\ task.args[1].s \in URLs

TaskDone(name, outcome) ==
    /\ name \in 1..Len(async_task_pool.tasks)
    /\ IsPending(async_task_pool, name)
    /\ async_task_pool' = RunTask(async_task_pool, name, outcome)
    /\ files' = IF WritesFile(async_task_pool.tasks[name], outcome)
                THEN files \cup {async_task_pool.tasks[name].args[2].s}
                ELSE files
    /\ ev' = [type |-> "task_done", name |-> name]
    /\ UNCHANGED <<async_results, pages, actions, trace, driver, task_vars, other_actions, stack, calls, first_got>>

---------------------------------------------------------------------------
(* Top-level calls of the orchestrating thread                             *)

\* some caller holds AsyncResult a and calls a.get()
CallGet(a) ==
    /\ Idle
    /\ driver = "node"
    /\ a \in 1..Len(async_results)
    /\ calls < MaxCalls
    /\ LET g == GetEnter(async_results, async_task_pool, a)
       IN  /\ async_results' = g.ars
           /\ stack' = IF g.returned THEN stack ELSE <<GetFrame(a)>>
           /\ first_got' = NoteGot(a, g)
           /\ ev' = GetEvent(a, g, FALSE)
    /\ calls' = calls + 1
    /\ UNCHANGED <<async_task_pool, files, pages, actions, trace, driver, task_vars, other_actions>>

\* one iteration of the polling loop of the get() on top of the stack
GetPoll ==
    /\ ~Idle
    /\ Top.op = "get"
    /\ LET a == Top.ar
           g == GetLoop(async_results, async_task_pool, a)
       IN  /\ async_results' = g.ars
           /\ stack' = IF g.returned THEN Deliver(Pop, g.value) ELSE stack
           /\ first_got' = NoteGot(a, g)
           /\ ev' = GetEvent(a, g, TRUE)
    /\ UNCHANGED <<async_task_pool, files, pages, actions, trace, driver, task_vars, other_actions, calls>>

---------------------------------------------------------------------------
(* DownloadPage.parse, lines 281-330                                       *)

\* os.path.join, os.path.basename, os.path.dirname on token sequences
LastSlash(s) ==
    IF \E i \in 1..Len(s) : s[i] = "/"
    THEN CHOOSE i \in 1..Len(s) : s[i] = "/" /\ \A j \in (i+1)..Len(s) : s[j] # "/"
    ELSE 0
path_join(a, b) == a \o <<"/">> \o b
basename(s) == SubSeq(s, LastSlash(s) + 1, Len(s))
dirname(s) == SubSeq(s, 1, LastSlash(s) - 1)

\* the directory and all its ancestors, as os.makedirs creates them
makedirs(s) ==
    {SubSeq(s, 1, i - 1) : i \in {j \in 2..Len(s) : s[j] = "/"}} \cup {s}

\* get_valid_file_path: the characters no file system accepts are dropped
InvalidChrs == {":", "*", "?", "\"", "<", ">", "|"}
IsValidChr(c) == c \notin InvalidChrs
get_valid_file_path(path) == SelectSeq(path, IsValidChr)

\* lines 296-306: the path before sanitising (page_idx and url_idx from 0)
RawFilePath(p, page_idx, url_idx, url) ==
    LET page_folder ==
            IF p.page_folder_name = None
            THEN path_join(p.folder, <<ToString(page_idx)>>)
            ELSE path_join(p.folder, p.page_folder_name.v[page_idx + 1])
    IN  IF p.item_file_name = None
        THEN path_join(page_folder, basename(url.s))
        ELSE path_join(page_folder, p.item_file_name.v[page_idx + 1][url_idx + 1])

FilePath(p, page_idx, url_idx, url) ==
    get_valid_file_path(RawFilePath(p, page_idx, url_idx, url))

\* a test that skips a file that exists only when skip_downloaded is off
SkipDownload_unless(p, file_path, fs) == file_path \in fs /\ ~p.skip_downloaded

\* a test that skips a url when either condition holds
SkipDownload_or(p, file_path, fs) == file_path \in fs \/ p.skip_downloaded

\* line 310: the test that skips a url
SkipDownload(p, file_path, fs) == file_path \in fs /\ p.skip_downloaded

\* lines 300-315 for one url; st = [p, pool, ars, files]
DownloadPage_item(st, page_idx, url_idx, url) ==
    LET p == st.p
        raw == RawFilePath(p, page_idx, url_idx, url)
        fs == st.files \cup makedirs(dirname(raw))
        file_path == get_valid_file_path(raw)
    IN  IF SkipDownload(p, file_path, fs)
        THEN [st EXCEPT !.files = fs]
        ELSE LET pool == add_task(st.pool, p.web_get_fn,
                                  <<url, Str(file_path), p.kwargs_headers>>)
                 a == Len(st.ars) + 1
                 n == Len(p.result)
             IN  [p |-> [p EXCEPT !.result[n] = Append(@, Ref(a))],
                  pool |-> pool,
                  ars |-> Append(st.ars, AsyncResult(TaskName(pool))),
                  files |-> fs]

\* a wait loop that looks at the last bucket only
NotFinishedCount_last(p, pool, ars) ==
    LET items == IF p.result = <<>> THEN <<>> ELSE p.result[Len(p.result)]
    IN  Cardinality({i \in 1..Len(items) :
                        query_task(pool, ars[items[i].id].name) = NOT_FINISHED})

\* lines 318-326: one pass of the wait loop counts the unfinished tasks
NotFinishedCount(p, pool, ars) ==
    LET items == Flatten(p.result)
    IN  Cardinality({i \in 1..Len(items) :
                        query_task(pool, ars[items[i].id].name) = NOT_FINISHED})

\* every target file of this url source exists already
RECURSIVE AllDownloaded(_, _, _, _, _)
AllDownloaded(p, results, fs, page_idx, url_idx) ==
    IF page_idx >= Len(results) THEN TRUE
    ELSE IF url_idx >= Len(results[page_idx + 1])
    THEN AllDownloaded(p, results, fs, page_idx + 1, 0)
    ELSE /\ FilePath(p, page_idx, url_idx, results[page_idx + 1][url_idx + 1]) \in fs
         /\ AllDownloaded(p, results, fs, page_idx, url_idx + 1)

\* the frame of a DownloadPage.parse; before, tasks0 and had_all remember the
\* state at the call
DownloadFrame(n, results, before, tasks0, had_all) ==
    [op |-> "DownloadPage.parse", node |-> n, results |-> results,
     page_idx |-> 0, url_idx |-> 0, pc |-> "page", before |-> before,
     tasks0 |-> tasks0, had_all |-> had_all]

\* what a parse call did: the node, the buckets of result before and after,
\* the pages of its url source, the tasks it submitted
ParseEvent(n, before, input, after, submitted) ==
    [type |-> "parse", node |-> n, before |-> before, input |-> input,
     after |-> after, submitted |-> submitted, called |-> <<>>, had_all |-> FALSE]

\* page.perform(results=...) on a DownloadPage: up to the first page
CallDownload(n, results, base) ==
    /\ pages[n].kind = "DownloadPage"
    /\ LET p == SetWebGetFn(pages[n], "retrieve_file_async")
       IN  /\ pages' = [pages EXCEPT ![n] = p]
           /\ stack' = Append(base, DownloadFrame(n,
                          PagePage_process_url(p, results), Len(p.result),
                          Len(async_task_pool.tasks),
                          AllDownloaded(p, PagePage_process_url(p, results), files, 0, 0)))
    /\ ev' = [type |-> "call", node |-> n]
    /\ UNCHANGED <<async_task_pool, files, async_results, actions, trace, driver, task_vars, other_actions, first_got>>

\* the end of DownloadPage.parse (and of perform: no post-processing)
DownloadReturn(f) ==
    /\ stack' = Pop
    /\ ev' = [ParseEvent(f.node, f.before, Len(f.results), Len(pages[f.node].result),
                          Len(async_task_pool.tasks) - f.tasks0)
                 EXCEPT !.had_all = f.had_all]

\* one step of the loops of lines 292-315
DownloadStep ==
    /\ ~Idle
    /\ Top.op = "DownloadPage.parse"
    /\ Top.pc \in {"page", "item"}
    /\ LET f == Top
           p == pages[f.node]
           top == Len(stack)
       IN  IF f.pc = "page"
           THEN IF f.page_idx < Len(f.results)
                THEN \* line 295: a new bucket
                     /\ pages' = [pages EXCEPT ![f.node].result = Append(@, <<>>)]
                     /\ stack' = [stack EXCEPT ![top].pc = "item", ![top].url_idx = 0]
                     /\ ev' = [type |-> "page", node |-> f.node]
                     /\ UNCHANGED <<async_task_pool, files, async_results>>
                ELSE \* line 317: wait for the tasks or return
                     /\ UNCHANGED <<pages, async_task_pool, files, async_results>>
                     /\ IF p.wait_all /\ SumLen(p.result) > 0
                        THEN /\ stack' = [stack EXCEPT ![top].pc = "wait"]
                             /\ ev' = [type |-> "wait", node |-> f.node]
                        ELSE DownloadReturn(f)
           ELSE LET page == f.results[f.page_idx + 1]
                IN  IF f.url_idx < Len(page)
                    THEN LET st == DownloadPage_item(
                                     [p |-> p, pool |-> async_task_pool,
                                      ars |-> async_results, files |-> files],
                                     f.page_idx, f.url_idx, page[f.url_idx + 1])
                         IN  /\ Len(st.pool.tasks) <= MaxTasks
                             /\ pages' = [pages EXCEPT ![f.node] = st.p]
                             /\ async_task_pool' = st.pool
                             /\ async_results' = st.ars
                             /\ files' = st.files
                             /\ stack' = [stack EXCEPT ![top].url_idx = @ + 1]
                             /\ ev' = [type |-> "item", node |-> f.node,
                                      submitted |-> st.pool # async_task_pool]
                    ELSE /\ stack' = [stack EXCEPT ![top].pc = "page",
                                                   ![top].page_idx = @ + 1]
                         /\ ev' = [type |-> "page_end", node |-> f.node]
                         /\ UNCHANGED <<pages, async_task_pool, files, async_results>>
    /\ UNCHANGED <<actions, trace, driver, task_vars, other_actions, calls, first_got>>

\* one pass of the wait loop of lines 321-329
DownloadWait ==
    /\ ~Idle
    /\ Top.op = "DownloadPage.parse"
    /\ Top.pc = "wait"
    /\ IF NotFinishedCount(pages[Top.node], async_task_pool, async_results) > 0
       THEN /\ stack' = stack
            /\ ev' = [type |-> "wait", node |-> Top.node]
       ELSE DownloadReturn(Top)
    /\ UNCHANGED <<async_task_pool, files, async_results, pages, actions, trace, driver, task_vars, other_actions, calls,
                   first_got>>

---------------------------------------------------------------------------
(* ItemsPage, lines 333-403                                                *)

Doc1 == <<"<doc1>">>
Doc2 == <<"<doc2>">>
\* a text that holds a comment and no element
DocNoRoot == <<"<!---->">>

\* etree.HTML(r): the root element of the document of text r; a text that
\* holds no element has no root.  The empty text is no document: lxml raises
\* XMLSyntaxError for it.
etree_HTML(r) == IF r.s = DocNoRoot THEN None ELSE Element(r.s, "html", 1)
HTMLRaises(r) == r.t = "str" /\ r.s = <<>>

\* element.xpath(expr): what the expression selects in the element's document
xpath_eval(el, expr) ==
    IF el.doc = Doc1 /\ expr = "//p" THEN <<Element(Doc1, "p", 1), Element(Doc1, "p", 2)>>
    ELSE IF el.doc = Doc1 /\ expr = "//div" THEN <<Element(Doc1, "div", 1)>>
    ELSE IF el.doc = Doc2 /\ expr = "//div" THEN <<Element(Doc2, "div", 1)>>
    ELSE <<>>

\* BeautifulSoup(r, 'html.parser').find_all(findall_fn): the tags of the
\* document that the predicate accepts
find_all(r, findall_fn) ==
    IF r.s \in {Doc1, Doc2} /\ findall_fn = "is_div" THEN <<Tag(r.s, "div", 1)>>
    ELSE <<>>

\* alternatives whose matches are all merged
RECURSIVE xpath_alternatives_all(_, _, _)
xpath_alternatives_all(el, xpaths, xpath_idx) ==
    IF xpath_idx > Len(xpaths) THEN <<>>
    ELSE xpath_eval(el, xpaths[xpath_idx]) \o
         xpath_alternatives_all(el, xpaths, xpath_idx + 1)

\* lines 358-361: the first alternative that selects something
RECURSIVE xpath_alternatives(_, _, _)
xpath_alternatives(el, xpaths, xpath_idx) ==
    LET xpath_result == xpath_eval(el, xpaths[xpath_idx])
    IN  IF xpath_result = <<>> /\ xpath_idx < Len(xpaths)
        THEN xpath_alternatives(el, xpaths, xpath_idx + 1)
        ELSE xpath_result

\* an empty expression is no XPath: lxml raises XPathEvalError
XPathRaises(p, xpath_r) ==
    /\ xpath_r.t = "Element"
    /\ \/ p.xpath.t = "str" /\ p.xpath.s = <<>>
       \/ p.xpath.t = "list" /\ p.xpath.v # <<>> /\ p.xpath.v[1] = ""

\* ItemsPage.parse_xpath: the matches it adds (it returns True iff any)
parse_xpath(p, xpath_r) ==
    IF xpath_r.t # "Element" THEN <<>>
    ELSE IF p.xpath.t = "str" THEN xpath_eval(xpath_r, p.xpath.s[1])
    ELSE IF p.xpath.t = "list" /\ Len(p.xpath.v) >= 1
         THEN xpath_alternatives(xpath_r, p.xpath.v, 1)
         ELSE <<>>

\* line 390, not self.xpath
NoXpath(p) ==
    \/ p.xpath.t = "None"
    \/ p.xpath.t = "str" /\ p.xpath.s = <<>>
    \/ p.xpath.t = "list" /\ p.xpath.v = <<>>

\* lines 380-383: the item is skipped when its get() gave a failure tuple
\* whose first member is TaskStatus.NOT_SUCCEEDED
SkipsItem(was_async, r) ==
    was_async /\ r.t = "tuple" /\ r.v[1] = NOT_SUCCEEDED

\* the fallback taken whenever the expressions selected nothing, with or
\* without alternative_bs4
ItemsPage_item_unflagged(p, was_async, r, xpath_r) ==
    IF SkipsItem(was_async, r)
    THEN [p |-> p, xpath_r |-> xpath_r, raised |-> "no"]
    ELSE LET el == IF r.t = "str" THEN etree_HTML(r) ELSE xpath_r
             n == Len(p.result)
         IN  IF HTMLRaises(r)
             THEN [p |-> p, xpath_r |-> xpath_r, raised |-> "XMLSyntaxError"]
             ELSE IF el = Unbound
             THEN [p |-> p, xpath_r |-> el, raised |-> "UnboundLocalError"]
             ELSE IF XPathRaises(p, el)
             THEN [p |-> p, xpath_r |-> el, raised |-> "XPathEvalError"]
             ELSE LET found == parse_xpath(p, el)
                      use_bs4 == /\ p.findall_fn # "None"
                                 /\ \/ NoXpath(p)
                                    \/ found = <<>>
                  IN  IF use_bs4 /\ r.t # "str"
                      THEN [p |-> [p EXCEPT !.result[n] = @ \o found],
                            xpath_r |-> el, raised |-> "TypeError"]
                      ELSE [p |-> [p EXCEPT !.result[n] = @ \o found \o
                                     (IF use_bs4 THEN find_all(r, p.findall_fn)
                                      ELSE <<>>)],
                            xpath_r |-> el, raised |-> "no"]

\* lines 384-394 for one item r; gives [p, xpath_r, raised]
ItemsPage_item(p, was_async, r, xpath_r) ==
    IF SkipsItem(was_async, r)
    THEN [p |-> p, xpath_r |-> xpath_r, raised |-> "no"]
    ELSE LET el == IF r.t = "str" THEN etree_HTML(r) ELSE xpath_r
             n == Len(p.result)
         IN  IF HTMLRaises(r)
             THEN [p |-> p, xpath_r |-> xpath_r, raised |-> "XMLSyntaxError"]
             ELSE IF el = Unbound
             THEN [p |-> p, xpath_r |-> el, raised |-> "UnboundLocalError"]
             ELSE IF XPathRaises(p, el)
             THEN [p |-> p, xpath_r |-> el, raised |-> "XPathEvalError"]
             ELSE LET found == parse_xpath(p, el)
                      use_bs4 == /\ p.findall_fn # "None"
                                 /\ \/ NoXpath(p)
                                    \/ found = <<>> /\ p.alternative_bs4
                  IN  IF use_bs4 /\ r.t # "str"
                      THEN [p |-> [p EXCEPT !.result[n] = @ \o found],
                            xpath_r |-> el, raised |-> "TypeError"]
                      ELSE [p |-> [p EXCEPT !.result[n] = @ \o found \o
                                     (IF use_bs4 THEN find_all(r, p.findall_fn)
                                      ELSE <<>>)],
                            xpath_r |-> el, raised |-> "no"]

\* text_fn, lines 94-103, on one bucket
text_of(x) == IF x.t \in {"Element", "Tag"} THEN Str(<<"text", x.tag, ToString(x.i)>>) ELSE x
text_fn(bucket) ==
    IF Len(bucket) > 0 /\ bucket[1].t = "Element"
    THEN [i \in 1..Len(bucket) |-> text_of(bucket[i])]
    ELSE bucket

\* the function given as single_page_items_fn, applied to one bucket:
\* text_fn, lambda x: x (the default) or lambda x: x[1:]
single_page_items_fn(p, bucket) ==
    IF p.single_page_items_fn = "text_fn" THEN text_fn(bucket)
    ELSE IF p.single_page_items_fn = "tail"
         THEN SubSeq(bucket, 2, Len(bucket))
         ELSE bucket

\* ItemsPage._process_parsed_data
ItemsPage_process_parsed_data(p) ==
    [p EXCEPT !.result = [i \in 1..Len(p.result) |-> single_page_items_fn(p, p.result[i])]]

ItemsFrame(n, results, before) ==
    [op |-> "ItemsPage.parse", node |-> n, results |-> results,
     page_idx |-> 0, item_idx |-> 0, pc |-> "page", before |-> before,
     r |-> None, xpath_r |-> Unbound]

\* lines 371-372 with the father's result preferred to the argument
ItemsPage_input_father(p, results) ==
    IF p.father_page # 0 THEN pages[p.father_page].result ELSE results.v

\* lines 371-372: the input of this parse call
ItemsPage_input(p, results) ==
    IF results = None THEN pages[p.father_page].result ELSE results.v

\* page.perform(results=...) on an ItemsPage: up to the first page
CallItems(n, results, base) ==
    /\ pages[n].kind = "ItemsPage"
    /\ stack' = Append(base, ItemsFrame(n, ItemsPage_input(pages[n], results),
                                         Len(pages[n].result)))
    /\ ev' = [type |-> "call", node |-> n]
    /\ UNCHANGED <<async_task_pool, files, async_results, pages, actions, trace, driver, task_vars, other_actions, first_got>>

\* an exception that _perform would catch to go on with the next entry
Raise_caught(n, error, r) ==
    LET walks == {k \in 1..Len(stack) : stack[k].op = "_perform"}
        k == CHOOSE x \in walks : \A y \in walks : y <= x
    IN  /\ stack' = IF walks = {} THEN <<>>
                    ELSE [SubSeq(stack, 1, k) EXCEPT ![k].i = @ + 1, ![k].pc = "next"]
        /\ ev' = [type |-> "raise", node |-> n, error |-> error, r |-> r]

\* an exception leaves every frame: nothing above the node catches it;
\* r is the item the node was at
Raise(n, error, r) ==
    /\ stack' = <<>>
    /\ ev' = [type |-> "raise", node |-> n, error |-> error, r |-> r]

\* what the handling of one item did: the item as resolved, and the matches
\* it added to the current bucket
ItemEvent(n, r, before, after) ==
    [type |-> "item", node |-> n, r |-> r,
     added |-> SubSeq(after.result[Len(after.result)],
                      Len(before.result[Len(before.result)]) + 1,
                      Len(after.result[Len(after.result)]))]

\* one step of the loops of lines 374-394, up to the item's get()
ItemsStep ==
    /\ ~Idle
    /\ Top.op = "ItemsPage.parse"
    /\ Top.pc \in {"page", "item"}
    /\ LET f == Top
           top == Len(stack)
       IN  IF f.pc = "page"
           THEN IF f.page_idx < Len(f.results)
                THEN /\ pages' = [pages EXCEPT ![f.node].result = Append(@, <<>>)]
                     /\ stack' = [stack EXCEPT ![top].pc = "item", ![top].item_idx = 0]
                     /\ ev' = [type |-> "page", node |-> f.node]
                     /\ UNCHANGED <<async_results, first_got>>
                ELSE \* line 395: parse returns; perform goes on to post-process
                     /\ stack' = [stack EXCEPT ![top].pc = "process"]
                     /\ ev' = ParseEvent(f.node, f.before, Len(f.results),
                                         Len(pages[f.node].result), 0)
                     /\ UNCHANGED <<pages, async_results, first_got>>
           ELSE LET page == f.results[f.page_idx + 1]
                IN  IF f.item_idx >= Len(page)
                    THEN /\ stack' = [stack EXCEPT ![top].pc = "page",
                                                   ![top].page_idx = @ + 1]
                         /\ ev' = [type |-> "page_end", node |-> f.node]
                         /\ UNCHANGED <<pages, async_results, first_got>>
                    ELSE LET r == page[f.item_idx + 1]
                         IN  IF r.t = "AsyncResult"
                             THEN \* line 381: r = r.get()
                                  LET g == GetEnter(async_results, async_task_pool, r.id)
                                      waiting == [stack EXCEPT ![top].pc = "get"]
                                  IN  /\ async_results' = g.ars
                                      /\ first_got' = NoteGot(r.id, g)
                                      /\ ev' = GetEvent(r.id, g, FALSE)
                                      /\ stack' = IF g.returned
                                                  THEN Deliver(waiting, g.value)
                                                  ELSE Append(waiting, GetFrame(r.id))
                                      /\ UNCHANGED pages
                             ELSE LET st == ItemsPage_item(pages[f.node], FALSE, r, f.xpath_r)
                                  IN  /\ pages' = [pages EXCEPT ![f.node] = st.p]
                                      /\ IF st.raised # "no"
                                         THEN Raise(f.node, st.raised, r)
                                         ELSE /\ stack' = [stack EXCEPT
                                                    ![top].item_idx = @ + 1,
                                                    ![top].xpath_r = st.xpath_r]
                                              /\ ev' = ItemEvent(f.node, r, pages[f.node], st.p)
                                      /\ UNCHANGED <<async_results, first_got>>
    /\ UNCHANGED <<async_task_pool, files, actions, trace, driver, task_vars, other_actions, calls>>

\* lines 382-394 for an item whose get() has returned
ItemsGot ==
    /\ ~Idle
    /\ Top.op = "ItemsPage.parse"
    /\ Top.pc = "got"
    /\ LET f == Top
           top == Len(stack)
           st == ItemsPage_item(pages[f.node], TRUE, f.r, f.xpath_r)
       IN  /\ pages' = [pages EXCEPT ![f.node] = st.p]
           /\ IF st.raised # "no"
              THEN Raise(f.node, st.raised, f.r)
              ELSE /\ stack' = [stack EXCEPT ![top].pc = "item",
                                             ![top].item_idx = @ + 1,
                                             ![top].xpath_r = st.xpath_r,
                                             ![top].r = None]
                   /\ ev' = ItemEvent(f.node, f.r, pages[f.node], st.p)
    /\ UNCHANGED <<async_task_pool, files, async_results, actions, trace, driver, task_vars, other_actions, calls, first_got>>

\* BasePage.perform, lines 161-162, after an ItemsPage.parse
ItemsProcess ==
    /\ ~Idle
    /\ Top.op = "ItemsPage.parse"
    /\ Top.pc = "process"
    /\ pages' = [pages EXCEPT ![Top.node] = ItemsPage_process_parsed_data(@)]
    /\ stack' = Pop
    /\ ev' = [type |-> "perform", node |-> Top.node]
    /\ UNCHANGED <<async_task_pool, files, async_results, actions, trace, driver, task_vars, other_actions, calls, first_got>>

---------------------------------------------------------------------------
(* BasePage.perform called on a node, lines 159-162                        *)

\* PagePage / UrlIdxPagesPage: parse submits and returns, nothing to process
CallFetch(n, results, base) ==
    /\ pages[n].kind \in {"PagePage", "UrlIdxPagesPage"}
    /\ LET p == pages[n]
           called == IF p.kind = "UrlIdxPagesPage"
                     THEN UrlIdx_loop(p, 0, <<>>).called ELSE <<>>
           st == IF p.kind = "UrlIdxPagesPage"
                 THEN UrlIdxPagesPage_parse(p, results, async_task_pool, async_results)
                 ELSE PagePage_parse(p, results, async_task_pool, async_results)
           input == IF p.kind = "UrlIdxPagesPage"
                    THEN st.p.url.v ELSE PagePage_process_url(p, results)
       IN  /\ Len(st.pool.tasks) <= MaxTasks
           /\ pages' = [pages EXCEPT ![n] = st.p]
           /\ async_task_pool' = st.pool
           /\ async_results' = st.ars
           /\ stack' = base
           /\ ev' = [ParseEvent(n, Len(p.result), Len(input), Len(st.p.result),
                                Len(st.pool.tasks) - Len(async_task_pool.tasks))
                        EXCEPT !.called = called]
    /\ UNCHANGED <<files, actions, trace, driver, task_vars, other_actions, first_got>>

NeedsFather(p, results) ==
    /\ results = None
    /\ p.father_page = 0
    /\ \/ p.kind = "ItemsPage"
       \/ p.kind \in {"PagePage", "DownloadPage"} /\ p.url = UrlNone

\* the inputs a caller hands to perform(results=...): texts of documents
\* and, for a node that only queries with one expression and keeps its
\* matches as they are, a parsed element
Inputs(p) ==
    IF p.kind = "ItemsPage"
    THEN {None, List(<< <<Str(Doc2), Str(Doc1)>> >>),
          List(<< <<Str(DocNoRoot), Str(Doc1)>>, <<Str(<<>>)>> >>)}
         \cup (IF /\ p.single_page_items_fn = "identity"
                  /\ p.findall_fn = "None"
                  /\ p.xpath.t = "str"
               THEN {List(<< <<Str(Doc1), Element(Doc2, "div", 1)>> >>)}
               ELSE {})
    ELSE {None}

Perform(n, results) ==
    /\ Idle
    /\ driver = "node"
    /\ calls < MaxCalls
    /\ calls' = calls + 1
    /\ IF NeedsFather(pages[n], results)
       THEN /\ Raise(n, "AttributeError", None)
            /\ UNCHANGED <<async_task_pool, files, async_results, pages, actions, trace, driver, task_vars, other_actions,
                           first_got>>
       ELSE \/ CallFetch(n, results, stack)
            \/ CallDownload(n, results, stack)
            \/ CallItems(n, results, stack)

---------------------------------------------------------------------------
(* Actions.perform, lines 474-495.  Every call of _perform is a frame: the  *)
(* dict it walks, the entry it is at, the results dict it fills.            *)

Dict(d) == [t |-> "dict", v |-> d]
\* line 485 with the node's own name for the key of its own result
ReservedKey_plain(n) == n

\* f'__{n}__', the key of a node's own result beside those of its next pages
ReservedKey(n) == "__" \o n \o "__"

PerformFrame(page, results, kw) ==
    [op |-> "_perform", page |-> page, i |-> 1, pc |-> "next",
     results |-> results, kw |-> kw]

\* line 478 with the answer of the before_func ignored
BeforeAllows_always(p) == TRUE

\* line 478: the test that lets a page be performed
BeforeAllows(p) == p.before_func = "None" \/ p.before_func = "allow"

\* the results dict as the caller sees it: a dict made for the next pages of
\* a node is filled in place by the _perform call that walks them
RECURSIVE Assemble(_, _)
Assemble(frames, k) ==
    LET f == frames[k]
    IN  IF k < Len(frames) /\ frames[k + 1].op = "_perform"
        THEN DictSet(f.results, f.page[f.i].k, Dict(Assemble(frames, k + 1)))
        ELSE f.results

TraceEvent(e, n) == [e |-> e, node |-> n]

\* lines 491-494 with the pool started after the walk was entered
RunStart_late == <<TraceEvent("_perform", 0), TraceEvent("pool.run", 0)>>

\* lines 491-494: the pool is started, then the walk of self.pages is entered
RunStart == <<TraceEvent("pool.run", 0), TraceEvent("_perform", 0)>>

\* Actions.perform(results=kw), lines 491-494, up to the call of _perform
ActionsPerform(kw) ==
    /\ Idle
    /\ driver = "actions"
    /\ calls < MaxCalls
    /\ calls' = calls + 1
    /\ actions' = [actions EXCEPT !.results = Dict(<<>>)]
    /\ stack' = <<PerformFrame(actions.pages, <<>>, kw)>>
    /\ trace' = RunStart
    /\ ev' = [type |-> "run"]
    /\ UNCHANGED <<async_task_pool, files, async_results, pages, first_got, driver, task_vars, other_actions>>

\* lines 477-478 and 490-495: the next entry of the dict, or the return
PerformNext ==
    /\ ~Idle
    /\ Top.op = "_perform"
    /\ Top.pc = "next"
    /\ LET f == Top
           top == Len(stack)
       IN  IF f.i > Len(f.page)
           THEN IF top = 1
                THEN /\ stack' = <<>>
                     /\ actions' = [actions EXCEPT !.results = Dict(f.results)]
                     /\ trace' = Append(trace, TraceEvent("return", 0))
                     /\ ev' = [type |-> "run_end"]
                ELSE LET up == stack[top - 1]
                     IN  /\ stack' = [Pop EXCEPT
                               ![top - 1].results =
                                   DictSet(@, up.page[up.i].k, Dict(f.results)),
                               ![top - 1].i = @ + 1,
                               ![top - 1].pc = "next"]
                         /\ actions' = [actions EXCEPT
                               !.results = Dict(Assemble(stack', 1))]
                         /\ trace' = trace
                         /\ ev' = [type |-> "next_pages_end", node |-> up.page[up.i].v]
           ELSE LET n == f.page[f.i].v
                    hook == IF pages[n].before_func = "None" THEN <<>>
                            ELSE <<TraceEvent("before_func", n)>>
                IN  /\ actions' = actions
                    /\ IF BeforeAllows(pages[n])
                       THEN /\ stack' = [stack EXCEPT ![top].pc = "perform"]
                            /\ trace' = trace \o hook \o <<TraceEvent("perform", n)>>
                            /\ ev' = [type |-> "before", node |-> n, allowed |-> TRUE]
                       ELSE /\ stack' = [stack EXCEPT ![top].i = @ + 1]
                            /\ trace' = trace \o hook
                            /\ ev' = [type |-> "before", node |-> n, allowed |-> FALSE]
    /\ UNCHANGED <<async_task_pool, files, async_results, pages, calls, first_got, driver, task_vars, other_actions>>

\* line 480: p.perform(*args, **kwargs); the keyword results, if the caller
\* of Actions.perform gave one, is in kwargs
PerformPage ==
    /\ ~Idle
    /\ Top.op = "_perform"
    /\ Top.pc = "perform"
    /\ LET n == Top.page[Top.i].v
           base == [stack EXCEPT ![Len(stack)].pc = "after"]
       IN  IF NeedsFather(pages[n], Top.kw)
           THEN /\ Raise(n, "AttributeError", None)
                /\ UNCHANGED <<async_task_pool, files, async_results, pages, actions,
                               trace, driver, task_vars, other_actions, first_got>>
           ELSE \/ CallFetch(n, Top.kw, base)
                \/ CallDownload(n, Top.kw, base)
                \/ CallItems(n, Top.kw, base)
    /\ UNCHANGED <<calls, driver, task_vars, other_actions>>

\* lines 481-482 without the call of the after_func
AfterFunc_never(p, n) == <<>>

\* lines 481-482: the after_func, if any, is called once perform has returned
AfterFunc(p, n) ==
    IF p.after_func = "None" THEN <<>> ELSE <<TraceEvent("after_func", n)>>

\* lines 481-489: the page's perform has returned
PerformAfter ==
    /\ ~Idle
    /\ Top.op = "_perform"
    /\ Top.pc = "after"
    /\ LET f == Top
           top == Len(stack)
           n == f.page[f.i].v
           key == f.page[f.i].k
           p == pages[n]
           result == List(p.result)
           own == <<[k |-> ReservedKey(key), v |-> result]>>
           filled == [stack EXCEPT ![top].results = DictSet(@, key, Dict(own)),
                                   ![top].pc = "next_pages"]
       IN  /\ trace' = trace \o <<TraceEvent("performed", n)>> \o AfterFunc(p, n)
           /\ IF Len(p.next_pages) > 0 /\ top >= MaxDepth
              THEN \* line 486: one call of _perform too many
                   /\ Raise(n, "RecursionError", None)
                   /\ actions' = [actions EXCEPT !.results = Dict(Assemble(filled, 1))]
              ELSE /\ IF Len(p.next_pages) > 0
                      THEN stack' = Append(filled, PerformFrame(p.next_pages, own, f.kw))
                      ELSE stack' = [stack EXCEPT
                                        ![top].results = DictSet(@, key, result),
                                        ![top].i = @ + 1,
                                        ![top].pc = "next"]
                   /\ actions' = [actions EXCEPT !.results = Dict(Assemble(stack', 1))]
                   /\ ev' = [type |-> "after", node |-> n]
    /\ UNCHANGED <<async_task_pool, files, async_results, pages, calls, first_got, driver, task_vars, other_actions>>

---------------------------------------------------------------------------
(* Initial states: a forest built by add_page calls                        *)

Folder == <<"dl">>

FetchUrls ==
    {UrlFlat(<<Str(U1), Str(U1)>>), UrlNested(<< <<Str(U1)>>, <<Str(U2)>> >>)}

\* url sources of a DownloadPage: also one url whose file name is sanitised
DownloadUrls == FetchUrls \cup {UrlFlat(<<Str(U3)>>)}

RECURSIVE SeqsUpTo(_, _)
SeqsUpTo(S, n) ==
    IF n = 0 THEN {<<>>}
    ELSE LET shorter == SeqsUpTo(S, n - 1)
         IN  shorter \cup {Append(q, x) : q \in shorter, x \in S}

UrlFns == {[urls |-> us, stop |-> st] :
              us \in SeqsUpTo({U1, U2}, MaxK), st \in {Str(<<>>), None}}

Xpaths == {Str(<<"//p">>), List(<<"//p", "//div">>)}

\* the keyword results a caller gives to Actions.perform, or none
RunInputs == {None, List(<< <<Str(Doc2)>> >>)}

\* one add_page call; NoHooks is a call that gives neither hook
\* page 0 stands for a page object that no earlier call was given
AddPage(father, name, before_func, after_func) ==
    [page |-> 0, father |-> father, name |-> name,
     before_func |-> before_func, after_func |-> after_func, bad |-> "no"]
\* add_page called with an argument of a type it does not take: a name or a
\* father that is no str, a page that is no BasePage, a hook that is
\* neither None nor callable
BadArguments == {"name", "father", "page", "before_func", "after_func"}
BadCall(bad, father, name) ==
    [page |-> 0, father |-> father, name |-> name,
     before_func |-> "None", after_func |-> "None", bad |-> bad]
\* add_page called with a page object that an earlier call was given
AddAgain(page, father, name) ==
    [page |-> page, father |-> father, name |-> name,
     before_func |-> "None", after_func |-> "None", bad |-> "no"]
NoHooks(father, name) == AddPage(father, name, "None", "None")

\* hooks given to add_page: a before_func is a predicate that answers the
\* same at every call, an after_func a callback
BeforeFuncs == {"None", "allow", "deny"}
AfterFuncs == {"None", "hook"}

OnePage(u) == UrlNested(<< <<Str(u)>> >>)

\* a forest of two roots, the first with a next page, and hooks on each
TreeScenarios ==
    {[heap |-> <<PagePage(OnePage(U1), FALSE),
                 ItemsPage(Str(<<"//p">>), "None", FALSE, "identity"),
                 PagePage(OnePage(U2), FALSE)>>,
      wiring |-> <<AddPage("", "a", bf, af), AddPage("a", "items", bf2, "hook"),
                   AddPage("", "c", "None", af)>>, driver |-> "actions"] :
        bf \in BeforeFuncs, af \in AfterFuncs, bf2 \in {"None", "deny"}}

\* nodes that construction and add_page accept although they have nothing
\* to read: a father name no node has, a root without url
LooseScenarios ==
    {[heap |-> <<PagePage(OnePage(U1), FALSE),
                 ItemsPage(Str(<<"//p">>), "None", FALSE, "identity"),
                 PagePage(OnePage(U2), FALSE)>>,
      wiring |-> <<AddPage("", "a", "None", "hook"), AddPage("x", "items", "None", "hook"),
                   NoHooks("", "c")>>, driver |-> "actions"],
     [heap |-> <<PagePage(UrlNone, FALSE), PagePage(OnePage(U2), FALSE)>>,
      wiring |-> <<AddPage("", "a", "None", "hook"), NoHooks("", "c")>>,
      driver |-> "actions"]}

\* a root that fetches two pages of urls and the next page that reads them
OrderScenarios ==
    {[heap |-> <<PagePage(UrlNested(<< <<Str(U1), Str(U2)>>, <<Str(U3)>> >>), FALSE),
                 ItemsPage(Str(<<"//div">>), "None", FALSE, "identity")>>,
      wiring |-> <<NoHooks("", "a"), NoHooks("a", "items")>>, driver |-> "actions"]}

\* two roots, one with the default fetch function and one with its own
OwnFnScenarios ==
    {[heap |-> <<PagePage(OnePage(U1), FALSE),
                 WithWebGetFn(PagePage(OnePage(U2), ig), "my_get")>>,
      wiring |-> <<NoHooks("", "a"), NoHooks("", "b")>>, driver |-> "node"] :
        ig \in BOOLEAN}

\* one name given twice: to a next page of the first root and to the second
\* root, and then asked for as the father of a third page
SameNameScenarios ==
    {[heap |-> <<PagePage(OnePage(U1), FALSE),
                 ItemsPage(Str(<<"//p">>), "None", FALSE, "identity"),
                 PagePage(OnePage(U2), FALSE),
                 ItemsPage(Str(<<"//div">>), "None", FALSE, "identity")>>,
      wiring |-> <<NoHooks("", "a"), NoHooks("a", "dup"), NoHooks("", "dup"),
                   NoHooks("dup", "leaf")>>,
      driver |-> "actions"]}

\* a root that fetches one url and a next page that keeps all but the first
\* match of each page
TailScenarios ==
    {[heap |-> <<PagePage(OnePage(U1), FALSE),
                 ItemsPage(Str(<<"//p">>), "None", FALSE, "tail")>>,
      wiring |-> <<NoHooks("", "a"), NoHooks("a", "items")>>, driver |-> "actions"]}

\* an ItemsPage with a findall_fn: without an expression, with one, with
\* alternatives, and with alternative_bs4 set or not
FallbackXpaths == {None, List(<<>>), Str(<<>>), Str(<<"//p">>), List(<<"//p", "//div">>)}
FallbackScenarios ==
    {[heap |-> <<PagePage(OnePage(U1), FALSE), ItemsPage(x, "is_div", alt, "identity")>>,
      wiring |-> <<NoHooks("", "a"), NoHooks("a", "items")>>, driver |-> "node"] :
        x \in FallbackXpaths, alt \in BOOLEAN}

\* a root with a flat list of urls of its own, and a next page without: it
\* reads what the run hands it or else its father
SourceScenarios ==
    {[heap |-> <<PagePage(UrlFlat(<<Str(U1)>>), FALSE), PagePage(UrlNone, FALSE)>>,
      wiring |-> <<NoHooks("", "a"), NoHooks("a", "b")>>, driver |-> "actions"]}

\* a root, a call with an argument of a wrong type, and a call that names a
\* father no node has
BadCallScenarios ==
    {[heap |-> <<PagePage(OnePage(U1), FALSE), PagePage(OnePage(U2), FALSE),
                 ItemsPage(Str(<<"//p">>), "None", FALSE, "identity")>>,
      wiring |-> <<NoHooks("", "a"), BadCall(bad, "a", "b"), NoHooks("x", "items")>>,
      driver |-> "actions"] : bad \in BadArguments}

\* pages for two Actions instances: the first has added one of them, or none
InstanceScenarios ==
    {[heap |-> <<PagePage(OnePage(U1), FALSE), PagePage(OnePage(U2), FALSE),
                 ItemsPage(Str(<<"//p">>), "None", FALSE, "identity")>>,
      wiring |-> w, driver |-> "instances"] :
        w \in {<<>>, <<NoHooks("", "a")>>}}

\* heap of constructed pages and the add_page calls that wire them
Scenarios ==
    TreeScenarios \cup LooseScenarios \cup OrderScenarios \cup OwnFnScenarios
        \cup SameNameScenarios \cup TailScenarios \cup FallbackScenarios
        \cup SourceScenarios \cup BadCallScenarios \cup InstanceScenarios
    \cup
    {[heap |-> <<PagePage(u, ig), PagePage(UrlNested(<< <<Str(U1)>> >>), FALSE)>>,
      wiring |-> <<NoHooks("", "a"), NoHooks("", "b")>>, driver |-> "node"] :
        u \in FetchUrls, ig \in BOOLEAN}
    \cup
    {[heap |-> <<PagePage(UrlNested(<< <<Str(U1), Str(U2)>> >>), FALSE),
                 ItemsPage(x, "None", FALSE, fn)>>,
      wiring |-> <<NoHooks("", "a"), NoHooks("a", "items")>>, driver |-> "node"] :
        x \in Xpaths, fn \in {"identity", "text_fn"}}
    \cup
    {[heap |-> <<UrlIdxPagesPage(f, ig)>>,
      wiring |-> <<NoHooks("", "a")>>, driver |-> "node"] :
        f \in UrlFns, ig \in BOOLEAN}
    \cup
    {[heap |-> <<DownloadPage(u, Folder, w, sk, FALSE)>>,
      wiring |-> <<NoHooks("", "a")>>, driver |-> "node"] :
        u \in DownloadUrls, w \in BOOLEAN, sk \in BOOLEAN}

\* Actions.add_page, lines 445-452: the checks of the arguments; a call
\* that fails one returns self through put_err
add_page_checks(call) == call.bad = "no"

\* add_page, lines 442-469, for one call
AddPageCall(st, call, i) ==
    IF add_page_checks(call)
    THEN add_page(st, IF call.page = 0 THEN i ELSE call.page,
                  call.father, call.name, call.before_func, call.after_func)
    ELSE st

RECURSIVE Wire(_, _, _)
Wire(st, wiring, i) ==
    IF i > Len(wiring) THEN st
    ELSE Wire(AddPageCall(st, wiring[i], i), wiring, i + 1)

\* forests in which one page object was given to add_page twice: as a root
\* and under another root, and as a root and under itself
TwiceScenarios ==
    {[heap |-> <<PagePage(OnePage(U1), FALSE), PagePage(OnePage(U2), FALSE)>>,
      wiring |-> <<NoHooks("", "a"), NoHooks("", "c"), AddAgain(1, "c", "b")>>,
      driver |-> "actions"],
     [heap |-> <<PagePage(OnePage(U1), FALSE)>>,
      wiring |-> <<NoHooks("", "a"), AddAgain(1, "a", "b")>>,
      driver |-> "actions"]}

---------------------------------------------------------------------------
(* mbapy.web_utils.task: the status queue shared by the main thread and    *)
(* the input threads.  queue.Queue.get() blocks while the queue is empty;  *)
(* a statues_que_opts call holds the dictionary between its get (line 30)  *)
(* and its put (line 46).                                                  *)

MaxLaunches == 2    \* launch_sub_thread calls of one run
MaxLines == 2       \* lines typed on the console
MaxMainCalls == 2   \* statues_que_opts and get_input calls of the main thread

BoolValue(b) == [t |-> "bool", b |-> b]
IntValue(n) == [t |-> "int", n |-> n]

\* the dictionary launch_sub_thread puts, lines 77-82
NewStatus == <<[k |-> "quit", v |-> BoolValue(FALSE)], [k |-> "input", v |-> None]>>

\* a statues_que_opts call a thread is in: (theQue, var_name, opts, *args)
OptsCall(var_name, opts, args) ==
    [t |-> "call", var_name |-> var_name, opts |-> opts, args |-> args]

\* the frame of a thread: the function it runs and the line it is at, the
\* statues_que_opts call it is in (None outside one), the dictionary that call
\* holds, and get_input's local ret
Frame(fn, pc) ==
    [fn |-> fn, pc |-> pc, call |-> None, held |-> FALSE, dataDict |-> <<>>, ret |-> None]

MainThread == 0
SubThreads == 1..MaxLaunches
ThreadIds == {MainThread} \cup SubThreads

\* task.py as imported: statuesQue = Queue() (line 9), no thread started
threads_init == [t \in ThreadIds |-> Frame("none", 0)]
task_log_init ==
    [launches |-> 0, typed |-> 0, calls |-> 0, direct |-> 0, raised |-> 0,
     stored |-> <<>>, returned |-> <<>>]

\* the k-th line typed on the console
Line(k) == Str(<<ToString(k)>>)

\* Python's int(): bool is a subclass of int
IsNumber(v) == v.t \in {"bool", "int"}
Num(v) == IF v.t = "bool" THEN (IF v.b THEN 1 ELSE 0) ELSE v.n

\* dataDict[var_name] -= args[0] and += args[0], lines 37 and 39: the new value,
\* or the TypeError Python raises for operands it cannot combine
InPlace(v, a, sign) ==
    IF IsNumber(v) /\ IsNumber(a) THEN IntValue(Num(v) + sign * Num(a))
    ELSE IF sign = 1 /\ v.t = "str" /\ a.t = "str" THEN Str(v.s \o a.s)
    ELSE [t |-> "TypeError"]

\* statues_que_opts, lines 31-47, on the dictionary line 30 took: the dictionary
\* as the call leaves it, the return value, and the exception that ended the
\* call before line 46 ("no" when none did)
statues_que_opts(dataDict, var_name, opts, args) ==
    LET done(d, r) == [dataDict |-> d, ret |-> r, raised |-> "no"]
        raise(e) == [dataDict |-> dataDict, ret |-> None, raised |-> e]
        by(sign) ==
            IF Len(args) = 0 THEN raise("IndexError")
            ELSE LET v == InPlace(DictGet(dataDict, var_name), args[1], sign)
                 IN  IF v.t = "TypeError" THEN raise("TypeError")
                     ELSE done(DictSet(dataDict, var_name, v), None)
    IN  IF DictHas(dataDict, var_name)
        THEN IF opts \in {"getValue", "getVar"}
             THEN done(dataDict, DictGet(dataDict, var_name))
             ELSE IF opts \in {"setValue", "setVar"}
             THEN IF Len(args) = 0 THEN raise("IndexError")
                  ELSE done(DictSet(dataDict, var_name, args[1]), None)
             ELSE IF opts = "reduceBy" THEN by(-1)
             ELSE IF opts = "addBy" THEN by(1)
             ELSE done(dataDict, None)
        ELSE IF opts = "putValue"
             THEN IF Len(args) = 0 THEN raise("IndexError")
                  ELSE done(DictSet(dataDict, var_name, args[1]), None)
             ELSE done(dataDict, None)

spider_vars == <<async_task_pool, files, async_results, pages, actions, stack, calls,
                 first_got, trace, driver, other_actions>>

\* launch_sub_thread() with its default arguments, lines 59-94: one more
\* dictionary in the queue, one more thread in _wait_for_quit at input()
launch_sub_thread ==
    /\ driver = "task"
    /\ threads[MainThread].fn = "none"
    /\ task_log.launches < MaxLaunches
    /\ statuesQue' = Append(statuesQue, NewStatus)
    /\ threads' = [threads EXCEPT ![task_log.launches + 1] = Frame("_wait_for_quit", 14)]
    /\ task_log' = [task_log EXCEPT !.launches = @ + 1]
    /\ ev' = [type |-> "launch_sub_thread"]
    /\ UNCHANGED spider_vars

\* the calls the main thread makes itself: of a variable the dictionary has
\* and of one it has not, with an option the function knows and with one it
\* does not, with and without the value the option needs
DirectCalls ==
    {OptsCall("quit", "getValue", <<>>),
     OptsCall("n", "getValue", <<>>),
     OptsCall("n", "putValue", <<IntValue(1)>>),
     OptsCall("input", "clear", <<>>),
     OptsCall("quit", "addBy", <<IntValue(1)>>),
     OptsCall("input", "reduceBy", <<IntValue(1)>>),
     OptsCall("input", "setValue", <<>>)}

\* the main thread calls statues_que_opts(statuesQue, var_name, opts, *args)
CallOpts(call) ==
    /\ driver = "task"
    /\ threads[MainThread].fn = "none"
    /\ task_log.calls < MaxMainCalls
    /\ threads' = [threads EXCEPT
                       ![MainThread] = [Frame("statues_que_opts", 30) EXCEPT !.call = call]]
    /\ task_log' = [task_log EXCEPT !.calls = @ + 1, !.direct = @ + 1]
    /\ ev' = [type |-> "call", fn |-> "statues_que_opts"]
    /\ UNCHANGED <<spider_vars, statuesQue>>

\* the main thread calls get_input(): line 52 starts the first read
CallGetInput ==
    /\ driver = "task"
    /\ threads[MainThread].fn = "none"
    /\ task_log.calls < MaxMainCalls
    /\ threads' = [threads EXCEPT
                       ![MainThread] = [Frame("get_input", 52) EXCEPT
                                            !.call = OptsCall("input", "getValue", <<>>)]]
    /\ task_log' = [task_log EXCEPT !.calls = @ + 1]
    /\ ev' = [type |-> "call", fn |-> "get_input"]
    /\ UNCHANGED <<spider_vars, statuesQue>>

\* what is typed: the key of the one action launch_sub_thread installs by
\* default (line 84), or a line that is no key
Typed == {"e", "line"}

\* _wait_for_quit, lines 14-19: input() returns, and the thread starts the
\* action of the key (line 16) or the store of the line (line 19)
ReadLine(t, s) ==
    /\ driver = "task"
    /\ threads[t].fn = "_wait_for_quit"
    /\ threads[t].pc = 14
    /\ task_log.typed < MaxLines
    /\ threads' = [threads EXCEPT
                       ![t] = IF s = "e"
                              THEN [Frame("_wait_for_quit", 16) EXCEPT
                                        !.call = OptsCall("quit", "setValue", <<BoolValue(TRUE)>>)]
                              ELSE [Frame("_wait_for_quit", 19) EXCEPT
                                        !.call = OptsCall("input", "setValue",
                                                          <<Line(task_log.typed + 1)>>)]]
    /\ task_log' = [task_log EXCEPT !.typed = @ + 1]
    /\ ev' = [type |-> "input", thread |-> t, s |-> s]
    /\ UNCHANGED <<spider_vars, statuesQue>>

\* statues_que_opts, line 30: theQue.get() returns once the queue holds a
\* dictionary, and waits until then
QueGet(t) ==
    /\ driver = "task"
    /\ threads[t].call.t = "call"
    /\ ~threads[t].held
    /\ Len(statuesQue) > 0
    /\ statuesQue' = Tail(statuesQue)
    /\ threads' = [threads EXCEPT ![t].held = TRUE, ![t].dataDict = Head(statuesQue)]
    /\ ev' = [type |-> "get", thread |-> t]
    /\ UNCHANGED <<spider_vars, task_log>>

\* where a thread goes on when its statues_que_opts call returned r:
\* get_input lines 52-57, _wait_for_quit lines 16-20
Continue(fr, r) ==
    IF fr.fn = "get_input"
    THEN IF fr.pc = 56 THEN Frame("none", 0)
         ELSE IF r.ret.t = "None"
         THEN [Frame("get_input", 55) EXCEPT !.call = OptsCall("input", "getValue", <<>>)]
         ELSE [Frame("get_input", 56) EXCEPT
                   !.ret = r.ret, !.call = OptsCall("input", "setValue", <<None>>)]
    ELSE IF fr.fn = "_wait_for_quit"
    THEN IF fr.pc = 16 THEN Frame("returned", 20) ELSE Frame("_wait_for_quit", 14)
    ELSE Frame("none", 0)

\* statues_que_opts, lines 31-47, and the caller's next line.  An exception
\* leaves the function before line 46: it reaches the caller in the main
\* thread and ends a sub-thread.
OptsRun(t) ==
    /\ driver = "task"
    /\ threads[t].held
    /\ LET fr == threads[t]
           r == statues_que_opts(fr.dataDict, fr.call.var_name, fr.call.opts, fr.call.args)
       IN  IF r.raised # "no"
           THEN /\ UNCHANGED statuesQue
                /\ threads' = [threads EXCEPT
                                   ![t] = IF t = MainThread THEN Frame("none", 0)
                                          ELSE Frame("raised", fr.pc)]
                /\ task_log' = [task_log EXCEPT !.raised = @ + 1]
                /\ ev' = [type |-> "raise", thread |-> t, error |-> r.raised]
           ELSE /\ statuesQue' = Append(statuesQue, r.dataDict)
                /\ threads' = [threads EXCEPT ![t] = Continue(fr, r)]
                /\ task_log' =
                       IF fr.fn = "get_input" /\ fr.pc = 56
                       THEN [task_log EXCEPT !.returned = Append(@, fr.ret)]
                       ELSE IF fr.fn = "_wait_for_quit" /\ fr.pc = 19
                       THEN [task_log EXCEPT !.stored = Append(@, fr.call.args[1])]
                       ELSE task_log
                /\ ev' = [type |-> "put", thread |-> t, ret |-> r.ret]
    /\ UNCHANGED spider_vars

---------------------------------------------------------------------------
InitOf(scenarios) ==
    \E sc \in scenarios :
        LET st == Wire([pages |-> sc.heap, actions |-> Actions_init], sc.wiring, 1)
        IN  /\ pages = st.pages
            /\ actions = st.actions
            /\ async_task_pool = [tasks |-> <<>>]
            /\ files = {}
            /\ async_results = <<>>
            /\ stack = <<>>
            /\ calls = 0
            /\ first_got = [a \in 1..(MaxTasks + 1) |-> None]
            /\ trace = <<>>
            /\ driver = sc.driver
            /\ other_actions = None
            /\ statuesQue = <<>>
            /\ threads = threads_init
            /\ task_log = task_log_init
            /\ ev = [type |-> "add_page", heap |-> sc.heap, calls |-> sc.wiring]

---------------------------------------------------------------------------
(* A second Actions instance.  `actions` was constructed as Actions(): its  *)
(* pages is the dict object that is the default value of the parameter      *)
(* (line 408), so actions.pages is the content of that object.              *)

\* Actions(...) called with no pages argument, or with a new dict
PagesArguments == {"default", "new dict"}
OtherNames == {"a", "b"}

\* Actions.__init__, lines 408-414: self.pages is the argument, which is the
\* default object when none is given; the pool is a new CoroutinePool
NewActions(given) ==
    /\ driver = "instances"
    /\ other_actions = None
    /\ other_actions' = [t |-> "Actions", pages |-> [ref |-> given, v |-> <<>>],
                         headers |-> "User-Agent", results |-> None,
                         async_task_pool |-> "other pool"]
    /\ ev' = [type |-> "new_actions", given |-> given]
    /\ UNCHANGED <<async_task_pool, files, async_results, pages, actions, stack, calls,
                   first_got, trace, driver, task_vars>>

\* the dict that self.pages of the second instance refers to
PagesOf(o) == IF o.pages.ref = "default" THEN actions.pages ELSE o.pages.v

\* other.add_page(page, name=name) for a page that is in no forest yet
OtherAddPage(n, name) ==
    /\ driver = "instances"
    /\ other_actions # None
    /\ pages[n].name = ""
    /\ LET self == [pages |-> PagesOf(other_actions), headers |-> other_actions.headers,
                    results |-> None, async_task_pool |-> other_actions.async_task_pool]
           st == add_page([pages |-> pages, actions |-> self], n, "", name, "None", "None")
       IN  /\ pages' = st.pages
           /\ IF other_actions.pages.ref = "default"
              THEN /\ actions' = [actions EXCEPT !.pages = st.actions.pages]
                   /\ UNCHANGED other_actions
              ELSE /\ other_actions' = [other_actions EXCEPT !.pages.v = st.actions.pages]
                   /\ UNCHANGED actions
    /\ ev' = [type |-> "other_add_page", node |-> n]
    /\ UNCHANGED <<async_task_pool, files, async_results, stack, calls, first_got, trace,
                   driver, task_vars>>

\* every page object is given to add_page once
Init == InitOf(Scenarios)

\* page objects may be given to add_page more than once
InitAny == InitOf(Scenarios \cup TwiceScenarios)

\* the steps of the caller, the orchestrating thread and the pool around the
\* Actions instance
Run ==
    \/ \E n \in 1..Len(pages) : \E results \in Inputs(pages[n]) : Perform(n, results)
    \/ \E a \in 1..Len(async_results) : CallGet(a)
    \/ \E kw \in RunInputs : ActionsPerform(kw)
    \/ PerformNext
    \/ PerformPage
    \/ PerformAfter
    \/ GetPoll
    \/ DownloadStep
    \/ DownloadWait
    \/ ItemsStep
    \/ ItemsGot
    \/ ItemsProcess
    \/ \E name \in 1..Len(async_task_pool.tasks) : \E outcome \in Outcomes :
          TaskDone(name, outcome)

Next ==
    \/ Run
    \/ \E given \in PagesArguments : NewActions(given)
    \/ \E n \in 1..Len(pages) : \E name \in OtherNames : OtherAddPage(n, name)

Spec == Init /\ [][Next]_vars

AnySpec == InitAny /\ [][Next]_vars

\* a program that imports mbapy.web_utils.task and builds no page
TaskScenarios == {[heap |-> <<>>, wiring |-> <<>>, driver |-> "task"]}

TaskInit == InitOf(TaskScenarios)

\* the steps of the main thread and of the input threads
TaskNext ==
    \/ launch_sub_thread
    \/ \E call \in DirectCalls : CallOpts(call)
    \/ CallGetInput
    \/ \E t \in SubThreads : \E s \in Typed : ReadLine(t, s)
    \/ \E t \in ThreadIds : QueGet(t)
    \/ \E t \in ThreadIds : OptsRun(t)

TaskSpec == TaskInit /\ [][TaskNext]_vars

\* the orchestrating thread keeps running: a polling loop that can make a
\* pass makes it.  Nothing is assumed of the pool: a task may stay pending.
FairSpec == Spec /\ WF_vars(GetPoll) /\ WF_vars(DownloadWait)

---------------------------------------------------------------------------
(* Properties                                                              *)

FetchKinds == {"PagePage", "UrlIdxPagesPage"}
Nodes == 1..Len(pages)
ItemsOf(n) == Flatten(pages[n].result)
TaskOf(r) == async_task_pool.tasks[async_results[r.id].name]
UrlOf(r) == TaskOf(r).args[1]
KindOf(n) == pages[n].kind

\* C1 (as the spec states it): after any parse call, also one of a second
\* perform, the node's result has as many buckets as the url source or input
\* that the call resolved.
C1_Original ==
    ev.type = "parse" => ev.after = ev.input

\* C1 (amended): a parse call that returns has appended one bucket per page
\* of the input it resolved to the buckets the node held before the call;
\* the result has exactly as many buckets as the input only when the node's
\* result was empty at the call.
C1_BucketsAppended ==
    ev.type = "parse" =>
        /\ ev.after = Len(pages[ev.node].result)
        /\ ev.after = ev.before + ev.input

\* a second ItemsPage.parse has added the buckets of its father to its own
C1_Witness ==
    /\ ev.type = "parse"
    /\ KindOf(ev.node) = "ItemsPage"
    /\ ev.before > 0
    /\ ev.input > 0

\* C2: a PagePage that keeps records passes each distinct url to add_task at
\* most once over all its parse calls; with ignore_records every occurrence
\* of a url in the url source gets its own task; no task is submitted that
\* is not recorded as one AsyncResult in the submitting node's result.
C2_DedupWithinNode ==
    /\ \A n \in Nodes :
          LET p == pages[n]
              items == ItemsOf(n)
              src == PagePage_process_url(p, None)
          IN  /\ (p.kind \in FetchKinds /\ ~p.ignore_records) =>
                    \A i, j \in 1..Len(items) :
                        i # j => UrlOf(items[i]) # UrlOf(items[j])
              /\ (p.kind = "PagePage" /\ p.ignore_records) =>
                    \A b \in 1..Len(p.result) :
                        LET page == src[((b - 1) % Len(src)) + 1]
                        IN  /\ Len(p.result[b]) = Len(page)
                            /\ \A j \in 1..Len(page) : UrlOf(p.result[b][j]) = page[j]
    /\ \A t \in 1..Len(async_task_pool.tasks) :
          Cardinality({nj \in {<<n, j>> : n \in Nodes, j \in 1..(2 * MaxTasks)} :
                          /\ nj[2] <= Len(ItemsOf(nj[1]))
                          /\ ItemsOf(nj[1])[nj[2]].t = "AsyncResult"
                          /\ async_results[ItemsOf(nj[1])[nj[2]].id].name = t}) = 1

\* the url source [u, u] was parsed twice by a node that keeps records: one task
C2_Witness ==
    \E n \in Nodes :
        /\ KindOf(n) = "PagePage"
        /\ ~pages[n].ignore_records
        /\ pages[n].url = UrlFlat(<<Str(U1), Str(U1)>>)
        /\ Len(pages[n].result) = 2
        /\ SumLen(pages[n].result) = 1

IsTerminal(v) == v # NOT_RETURNED /\ v # NOT_FINISHED

\* C4: once a get() has returned, the handle keeps that value for good, every
\* later get() on it returns the same value, and no step of a later get()
\* queries the pool.
C4_GetIdempotent ==
    /\ [](\A a \in 1..Len(async_results) :
            first_got[a] # None =>
                /\ IsTerminal(first_got[a])
                /\ async_results[a].result = first_got[a])
    /\ [](ev.type = "get" /\ ev.returned => ev.value = first_got[ev.ar])
    /\ [][(ev'.type = "get" /\ ev'.queried) => first_got[ev'.ar] = None]_vars

\* a get() on a handle that had returned before: answered without a query
C4_Witness ==
    /\ ev.type = "get"
    /\ ev.returned
    /\ ~ev.queried
    /\ first_got[ev.ar] = ev.value
    /\ calls >= 2

\* C5: get() returns only a terminal answer of the pool for its task name, and
\* the value returned is the one the pool holds for that task: the payload, or
\* the failure tuple of a task that did not succeed.
C5_GetReturnsPoolAnswer ==
    (ev.type = "get" /\ ev.returned) =>
        /\ ev.value = query_task(async_task_pool, async_results[ev.ar].name)
        /\ IsTerminal(ev.value)
        /\ ~IsPending(async_task_pool, async_results[ev.ar].name)

\* a get() that had to wait in its loop returned the failure tuple of its task
C5_Witness ==
    /\ ev.type = "get"
    /\ ev.returned
    /\ ev.queried
    /\ ev.looped
    /\ ev.value.t = "tuple"
    /\ ev.value.v[1] = NOT_SUCCEED

\* the get() of handle a is inside its polling loop
InGet(a) == ~Idle /\ Top.op = "get" /\ Top.ar = a
Pending(a) ==
    a \in 1..Len(async_results) /\ IsPending(async_task_pool, async_results[a].name)

\* C6: a get() whose task has reached a terminal state leaves its polling
\* loop; and a get() leaves the loop only in a state where its task is
\* terminal, so a get() on a task that stays pending for ever never returns.
C6_GetLiveness ==
    /\ \A a \in 1..(MaxTasks + 1) : (InGet(a) /\ ~Pending(a)) ~> ~InGet(a)
    /\ [][\A a \in 1..(MaxTasks + 1) :
            (InGet(a) /\ ~InGet(a)') => (~Pending(a) /\ ev'.type = "get" /\ ev'.returned)]_vars

\* a get() that found its task unfinished at the call returned from its loop
C6_Witness ==
    /\ ev.type = "get"
    /\ ev.looped
    /\ ev.returned
    /\ Idle

IndexUrls(p) == p.url_fn.urls
Indices(k) == [i \in 1..(k + 1) |-> i - 1]

\* C7 (as the spec states it): every parse of a UrlIdxPagesPage whose url_fn
\* gives k urls calls url_fn with 0..k and leaves k buckets in result, bucket i
\* holding one AsyncResult for the url of index i.
C7_Original ==
    (ev.type = "parse" /\ KindOf(ev.node) = "UrlIdxPagesPage") =>
        LET p == pages[ev.node]
            k == Len(IndexUrls(p))
        IN  /\ ev.called = Indices(k)
            /\ Len(p.result) = k
            /\ \A i \in 1..k :
                  /\ Len(p.result[i]) = 1
                  /\ UrlOf(p.result[i][1]) = Str(IndexUrls(p)[i])

\* C7 (amended): every parse calls url_fn with 0..k in this order and appends
\* the k urls to the url list of the node, which is never cleared: it holds
\* m*k urls in the m-th parse.  The parse appends one bucket per url of that
\* list: k buckets in the first parse of a node.  A new bucket holds one
\* AsyncResult for its url if the node ignores records or no earlier bucket
\* of the node holds that url; otherwise the bucket is empty.
C7_IndexPages ==
    (ev.type = "parse" /\ KindOf(ev.node) = "UrlIdxPagesPage") =>
        LET p == pages[ev.node]
            k == Len(IndexUrls(p))
            urls == p.url.v
        IN  /\ ev.called = Indices(k)
            /\ \E m \in 1..MaxCalls :
                  /\ Len(urls) = m * k
                  /\ ev.before = (k * m * (m - 1)) \div 2
            /\ \A j \in 1..Len(urls) :
                  urls[j] = <<Str(IndexUrls(p)[((j - 1) % k) + 1])>>
            /\ Len(p.result) = ev.before + Len(urls)
            /\ \A j \in 1..Len(urls) :
                  LET bucket == p.result[ev.before + j]
                      earlier == \E i \in 1..(ev.before + j - 1) :
                                    \E x \in 1..Len(p.result[i]) :
                                        UrlOf(p.result[i][x]) = urls[j][1]
                  IN  IF p.ignore_records \/ ~earlier
                      THEN Len(bucket) = 1 /\ UrlOf(bucket[1]) = urls[j][1]
                      ELSE bucket = <<>>

\* the first parse of a node whose url_fn gives the same url at two indices
C7_Witness ==
    /\ ev.type = "parse"
    /\ KindOf(ev.node) = "UrlIdxPagesPage"
    /\ ev.before = 0
    /\ Len(IndexUrls(pages[ev.node])) >= 2
    /\ IndexUrls(pages[ev.node])[1] = IndexUrls(pages[ev.node])[2]
    /\ ~pages[ev.node].ignore_records
    /\ Len(ev.called) = Len(IndexUrls(pages[ev.node])) + 1

IsDownloadParse ==
    ev.type = "parse" /\ KindOf(ev.node) = "DownloadPage"

\* C8 (as the spec states it): a parse of a DownloadPage with skip_downloaded
\* that is not the node's first submits no task.
C8_Original ==
    (IsDownloadParse /\ pages[ev.node].skip_downloaded /\ ev.before > 0) =>
        ev.submitted = 0

\* C8 (amended): a parse of a DownloadPage with skip_downloaded submits no
\* task when the target file of every url existed at the call, as on a second
\* run after every download of the first run has written its file.
C8_SkipsExisting ==
    (IsDownloadParse /\ pages[ev.node].skip_downloaded /\ ev.had_all) =>
        /\ ev.submitted = 0
        /\ \A b \in (ev.before + 1)..Len(pages[ev.node].result) :
              pages[ev.node].result[b] = <<>>

\* a second run over urls whose files the first run has written
C8_Witness ==
    /\ IsDownloadParse
    /\ pages[ev.node].skip_downloaded
    /\ ev.had_all
    /\ ev.before > 0
    /\ ev.input > 0
    /\ ev.submitted = 0

\* DownloadPage.parse is at a url of the current page, about to handle it
AtDownloadItem ==
    /\ ~Idle
    /\ Top.op = "DownloadPage.parse"
    /\ Top.pc = "item"
    /\ Top.url_idx < Len(Top.results[Top.page_idx + 1])

\* C9: the step of DownloadPage.parse that handles one url submits a task if
\* and only if it is not the case that skip_downloaded is set and the target
\* file exists; a submission is one retrieve_file_async task for this url and
\* file and one new AsyncResult for it at the end of the current bucket; a
\* skipped url changes neither the pool nor the handles nor the result.
C9_SubmitIffNotSkipped ==
    [][(AtDownloadItem /\ stack' # stack) =>
        LET f == Top
            n == f.node
            p == pages[n]
            url == f.results[f.page_idx + 1][f.url_idx + 1]
            file_path == FilePath(p, f.page_idx, f.url_idx, url)
            skipped == p.skip_downloaded /\ file_path \in files
            tasks == async_task_pool.tasks
            b == Len(p.result)
        IN  IF skipped
            THEN /\ async_task_pool' = async_task_pool
                 /\ async_results' = async_results
                 /\ pages'[n].result = p.result
            ELSE /\ Len(async_task_pool'.tasks) = Len(tasks) + 1
                 /\ SubSeq(async_task_pool'.tasks, 1, Len(tasks)) = tasks
                 /\ async_task_pool'.tasks[Len(tasks) + 1].fn = "retrieve_file_async"
                 /\ async_task_pool'.tasks[Len(tasks) + 1].args[1] = url
                 /\ async_task_pool'.tasks[Len(tasks) + 1].args[2] = Str(file_path)
                 /\ async_results' = Append(async_results, AsyncResult(Len(tasks) + 1))
                 /\ pages'[n].result =
                        [p.result EXCEPT ![b] = Append(@, Ref(Len(async_results) + 1))]
       ]_vars

\* a url was skipped because its file was there and skip_downloaded is set
C9_Witness ==
    /\ ev.type = "item"
    /\ KindOf(ev.node) = "DownloadPage"
    /\ pages[ev.node].skip_downloaded
    /\ ~ev.submitted
    /\ async_task_pool.tasks # <<>>

\* a DownloadPage.parse is in its wait loop
InWait == ~Idle /\ Top.op = "DownloadPage.parse" /\ Top.pc = "wait"
\* no task recorded in the result of node n is unfinished
NoneUnfinished(n) ==
    \A b \in 1..Len(pages[n].result) : \A i \in 1..Len(pages[n].result[b]) :
        ~IsPending(async_task_pool, async_results[pages[n].result[b][i].id].name)

\* C10: with wait_all, parse has returned only in a state where no task of the
\* node's result is unfinished, and a parse that waits returns once none is;
\* parse waits only with wait_all and a task in its result, so without
\* wait_all, or with no task recorded, it returns without waiting.
C10_WaitAll ==
    /\ []((IsDownloadParse /\ pages[ev.node].wait_all) => NoneUnfinished(ev.node))
    /\ [](InWait => (pages[Top.node].wait_all /\ SumLen(pages[Top.node].result) > 0))
    /\ (InWait /\ NoneUnfinished(Top.node)) ~> ~InWait
    /\ [][(InWait /\ ~InWait') => (NoneUnfinished(Top.node) /\ IsDownloadParse')]_vars

\* a parse with wait_all that has submitted tasks has returned
C10_Witness ==
    /\ IsDownloadParse
    /\ pages[ev.node].wait_all
    /\ ev.submitted > 1
    /\ Idle

\* an ItemsPage has handled one item without raising
IsItemsItem == ev.type = "item" /\ KindOf(ev.node) = "ItemsPage"
\* the matches of the first expression of xs, in list order, that selects
\* something in the document of text r
FirstMatching(r, xs) ==
    IF etree_HTML(r) = None THEN <<>>
    ELSE LET hits == {i \in 1..Len(xs) : xpath_eval(etree_HTML(r), xs[i]) # <<>>}
         IN  IF hits = {} THEN <<>>
             ELSE xpath_eval(etree_HTML(r),
                             xs[CHOOSE i \in hits : \A j \in hits : i <= j])

\* C11: with a list of expressions, the matches an ItemsPage adds for a
\* document are those of the first expression in list order that selects
\* something in it, and of no later one; for a document that only the second
\* expression matches they are what the second expression alone selects.
C11_FirstAlternative ==
    (IsItemsItem /\ pages[ev.node].xpath.t = "list" /\ ev.r.t = "str"
        /\ pages[ev.node].findall_fn = "None") =>
        LET xs == pages[ev.node].xpath.v
        IN  /\ ev.added = FirstMatching(ev.r, xs)
            /\ (Len(xs) = 2 /\ etree_HTML(ev.r) # None
                    /\ xpath_eval(etree_HTML(ev.r), xs[1]) = <<>>) =>
                  ev.added = xpath_eval(etree_HTML(ev.r), xs[2])

\* a document that both expressions match gave the matches of the first only
C11_Witness ==
    /\ IsItemsItem
    /\ pages[ev.node].xpath = List(<<"//p", "//div">>)
    /\ ev.r = Str(Doc1)
    /\ ev.added = <<Element(Doc1, "p", 1), Element(Doc1, "p", 2)>>

\* the value a failed fetch task leaves: (TaskStatus.NOT_SUCCEED, message)
IsFailureMarker(r) == r.t = "tuple" /\ r.v[1] = NOT_SUCCEED

\* C12: an item of an ItemsPage that resolves to the failure marker of a
\* failed fetch adds no match to its bucket and raises no error.
C12_FailedItemSkipped ==
    /\ (IsItemsItem /\ IsFailureMarker(ev.r)) => ev.added = <<>>
    /\ (ev.type = "raise" /\ KindOf(ev.node) = "ItemsPage") => ~IsFailureMarker(ev.r)

\* C13: a document that fails to parse does not abort the node, and an item
\* that is a document adds exactly the matches of that document: none when it
\* has no root or no expression matches it.
C13_BadDocumentTolerated ==
    /\ (ev.type = "raise" /\ KindOf(ev.node) = "ItemsPage") => ev.error # "XMLSyntaxError"
    /\ (IsItemsItem /\ ev.r.t = "str" /\ pages[ev.node].findall_fn = "None") =>
          ev.added = FirstMatching(ev.r, IF pages[ev.node].xpath.t = "list"
                                         THEN pages[ev.node].xpath.v
                                         ELSE pages[ev.node].xpath.s)
---------------------------------------------------------------------------
(* The traversal of Actions.perform, read off the trace of the current run *)

Has(e, n) == \E i \in 1..Len(trace) : trace[i] = TraceEvent(e, n)
Pos(e, n) == CHOOSE i \in 1..Len(trace) : trace[i] = TraceEvent(e, n)

\* the node dicts the traversal walks: the roots, and each node's next pages
NodeDicts == {actions.pages} \cup {pages[n].next_pages : n \in Nodes}
Children(n) == {pages[n].next_pages[i].v : i \in 1..Len(pages[n].next_pages)}
Allowed(n) == pages[n].before_func # "deny"

\* the nodes a perform of n brings with it: n, and below it whatever no
\* before_func holds back
RECURSIVE Due(_)
Due(n) == {n} \cup UNION {Due(c) : c \in {x \in Children(n) : Allowed(x)}}

RunReturned == Len(trace) > 0 /\ trace[Len(trace)] = TraceEvent("return", 0)

\* C14: within a run of Actions.perform a node's perform is followed at once
\* by its return and then by its after_func if it has one; a next page is
\* performed only after its father's perform and after_func are over; when
\* an entry of a dict is performed, every earlier entry that was performed
\* has its whole subtree behind it; and a run that returns has performed
\* every next page of a performed node that no before_func held back.
C14_TraversalOrder ==
    /\ \A n \in Nodes :
          /\ Has("performed", n) =>
                /\ Has("perform", n)
                /\ Pos("performed", n) = Pos("perform", n) + 1
                /\ pages[n].after_func # "None" =>
                      /\ Has("after_func", n)
                      /\ Pos("after_func", n) = Pos("performed", n) + 1
          /\ \A c \in Children(n) :
                Has("perform", c) =>
                    /\ Has("performed", n)
                    /\ Pos("perform", c) > Pos("performed", n)
                    /\ Has("after_func", n) => Pos("perform", c) > Pos("after_func", n)
          /\ (RunReturned /\ Has("performed", n)) =>
                \A x \in Due(n) : Has("performed", x)
    /\ \A d \in NodeDicts : \A i, j \in 1..Len(d) :
          (i < j /\ Has("perform", d[i].v) /\ Has("perform", d[j].v)) =>
              \A x \in Due(d[i].v) :
                  /\ Has("performed", x)
                  /\ Pos("performed", x) < Pos("perform", d[j].v)
                  /\ Has("after_func", x) => Pos("after_func", x) < Pos("perform", d[j].v)

\* a run has returned in which a root with an after_func, its next page and
\* the root after it were all performed
C14_Witness ==
    /\ RunReturned
    /\ \E n \in Nodes : \E c \in Children(n) : \E m \in Nodes :
          /\ pages[n].after_func # "None"
          /\ Has("performed", c)
          /\ Has("performed", m)
          /\ Pos("performed", m) > Pos("performed", c)
          /\ Len(trace) >= 9

\* the nodes under which the traversal reaches n: its fathers up to a root
RECURSIVE Fathers(_)
Fathers(n) ==
    IF pages[n].father_page = 0 THEN {}
    ELSE {pages[n].father_page} \cup Fathers(pages[n].father_page)

\* C15 as stated: a run that returns has invoked the after_func of every
\* node that has one, whatever its before_func answered.
C15_Original ==
    RunReturned =>
        \A n \in Nodes : pages[n].after_func # "None" => Has("after_func", n)

\* C15 (amended): the after_func of a node is invoked exactly when the
\* node's perform was called and has returned, and perform is called only
\* on a node whose before_func is absent or answered true; a run that
\* returns has invoked the after_func of exactly the nodes that have one and
\* that no before_func, their own or that of a node above them, held back.
C15_AfterFuncFollowsPerform ==
    \A n \in Nodes :
        /\ Has("after_func", n) <=>
              (pages[n].after_func # "None" /\ Has("performed", n))
        /\ Has("perform", n) => pages[n].before_func \in {"None", "allow"}
        /\ RunReturned =>
              (Has("after_func", n) <=>
                   /\ pages[n].after_func # "None"
                   /\ \A x \in Fathers(n) \cup {n} : pages[x].before_func # "deny")

\* a run has returned that kept the after_func of a node back because its
\* before_func said no, and invoked the after_func of another node
C15_Witness ==
    /\ RunReturned
    /\ \E n, m \in Nodes :
          /\ pages[n].after_func # "None"
          /\ pages[n].before_func = "deny"
          /\ ~Has("after_func", n)
          /\ Has("after_func", m)

Keys(d) == {d[i].k : i \in 1..Len(d)}
IsResultOf(v, n) == v.t = "list" /\ v.v = pages[n].result

\* tree mirrors the dict d of nodes: an entry for each performed node of d
\* under the node's name and no other entry but those of skip
RECURSIVE Mirrors(_, _, _)
Mirrors(d, tree, skip) ==
    /\ Keys(tree) \ skip = {d[i].k : i \in {j \in 1..Len(d) : Has("performed", d[j].v)}}
    /\ \A i \in 1..Len(d) :
          LET n == d[i].v
              name == d[i].k
              own == "__" \o name \o "__"
          IN  Has("performed", n) =>
                  LET v == DictGet(tree, name)
                  IN  IF Len(pages[n].next_pages) = 0
                      THEN IsResultOf(v, n)
                      ELSE /\ v.t = "dict"
                           /\ DictHas(v.v, own)
                           /\ IsResultOf(DictGet(v.v, own), n)
                           /\ Mirrors(pages[n].next_pages, v.v, {own})

\* C16: when Actions.perform returns, self.results holds one entry per
\* performed node of the forest under the node's name: the node's result
\* itself if the node has no next pages, else a dict with the node's result
\* under '__name__' and one such entry per performed next page.
C16_ResultTree ==
    ev.type = "run_end" =>
        /\ actions.results.t = "dict"
        /\ Mirrors(actions.pages, actions.results.v, {})

\* a run has returned a tree with a dict of two entries for a root that has
\* a next page and a list for a root that has none
C16_Witness ==
    /\ ev.type = "run_end"
    /\ \E i, j \in 1..Len(actions.results.v) :
          /\ actions.results.v[i].v.t = "dict"
          /\ Len(actions.results.v[i].v.v) = 2
          /\ actions.results.v[j].v.t = "list"
          /\ Len(actions.results.v[j].v.v) > 0

\* the parse calls of next pages that a run of Actions.perform is in: the
\* positions on the stack of an ItemsPage.parse called by _perform
ParsesOfRun ==
    {k \in 2..Len(stack) :
        /\ stack[k].op = "ItemsPage.parse"
        /\ stack[k - 1].op = "_perform"
        /\ pages[stack[k].node].father_page # 0}
FatherResult(k) == pages[pages[stack[k].node].father_page].result

\* C17 as stated: whatever Actions.perform was called with, the parse of a
\* next page consumes the current result of its father.
C17_Original ==
    \A k \in ParsesOfRun : stack[k].results = FatherResult(k)

\* C17 (amended): in a run of Actions.perform called without the keyword
\* results, the parse of a next page consumes the current result of its
\* father; in a run called with results=R it consumes R.
C17_ChildInput ==
    \A k \in ParsesOfRun :
        LET kw == stack[k - 1].kw
        IN  IF kw = None
            THEN stack[k].results = FatherResult(k)
            ELSE stack[k].results = kw.v

\* in a run called without results a next page is at the second bucket or
\* beyond the first item of what its father fetched
C17_Witness ==
    \E k \in ParsesOfRun :
        /\ stack[k - 1].kw = None
        /\ Len(FatherResult(k)) > 0
        /\ stack[k].results = FatherResult(k)
        /\ stack[k].page_idx + stack[k].item_idx > 0

\* the nodes of a dict in the order the traversal meets them
RECURSIVE TraversalOrder(_, _)
TraversalOrder(d, i) ==
    IF i > Len(d) THEN <<>>
    ELSE <<d[i].v>> \o TraversalOrder(pages[d[i].v].next_pages, 1)
               \o TraversalOrder(d, i + 1)

\* the current run was ended by an exception in the perform of node n
Aborted(n) ==
    /\ Idle
    /\ Len(trace) > 0
    /\ trace[Len(trace)] = TraceEvent("perform", n)

\* C18: an exception raised by a node's perform during Actions.perform
\* leaves every frame of the run; the failing node's perform has not
\* returned and its after_func is not invoked; and as long as no new run is
\* started, no node that comes after it in traversal order has been
\* performed.
C18_FailFast ==
    /\ ev.type = "raise" => Idle
    /\ (ev.type = "raise" /\ driver = "actions") => Aborted(ev.node)
    /\ \A n \in Nodes :
          Aborted(n) =>
              /\ ~Has("performed", n)
              /\ ~Has("after_func", n)
              /\ LET order == TraversalOrder(actions.pages, 1)
                 IN  \A i, j \in 1..Len(order) :
                        (order[i] = n /\ i < j) => ~Has("perform", order[j])

\* a run was ended by a node that has an after_func, after an earlier node
\* was performed and before a later node was reached
C18_Witness ==
    \E n \in Nodes :
        /\ ev.type = "raise"
        /\ Aborted(n)
        /\ pages[n].after_func # "None"
        /\ LET order == TraversalOrder(actions.pages, 1)
           IN  \E i, j \in 1..Len(order) :
                  /\ order[i] = n
                  /\ i < j
                  /\ \E h \in 1..(i - 1) : Has("performed", order[h])

\* C19: a node that was constructed and accepted by add_page does not fail
\* during Actions.perform because of its own configuration: no run is ended
\* by a node that has neither a url source nor a father to read from.
C19_ConfigRejectedEarly ==
    (driver = "actions" /\ ev.type = "raise") =>
        ~(/\ ev.error = "AttributeError"
          /\ pages[ev.node].father_page = 0
          /\ pages[ev.node].url = UrlNone)

\* a fetch node with a url configuration of its own, and the page-buckets
\* that configuration makes: one for a flat list of urls, one per page else
FixedUrl(n) == pages[n].kind = "PagePage" /\ pages[n].url # UrlNone
UrlBuckets(n) ==
    IF pages[n].url.form = "flat"
    THEN IF Len(pages[n].url.flat) > 0 THEN 1 ELSE 0
    ELSE Len(pages[n].url.v)

\* the first root: every run performs it unless its before_func holds it back
FirstRoot == actions.pages[1].v

\* C20: every step leaves the buckets a fetch node with a fixed url
\* configuration already holds as they are, as a prefix of its result, and
\* adds none or the n buckets of one perform; after m runs of Actions.perform
\* that each performed the node it holds m*n buckets.
C20_Accumulates ==
    /\ [][\A n \in Nodes :
            FixedUrl(n) =>
                /\ Len(pages'[n].result) \in
                      {Len(pages[n].result), Len(pages[n].result) + UrlBuckets(n)}
                /\ SubSeq(pages'[n].result, 1, Len(pages[n].result)) = pages[n].result]_vars
    /\ [](( /\ driver = "actions"
            /\ Idle
            /\ FixedUrl(FirstRoot)
            /\ pages[FirstRoot].before_func # "deny") =>
                Len(pages[FirstRoot].result) = calls * UrlBuckets(FirstRoot))

\* two runs of Actions.perform have returned and the first root holds the
\* bucket of the first run, with its fetch in it, and the bucket of the second
C20_Witness ==
    /\ driver = "actions"
    /\ calls = 2
    /\ RunReturned
    /\ FixedUrl(FirstRoot)
    /\ Len(pages[FirstRoot].result) = 2
    /\ Len(pages[FirstRoot].result[1]) = 1

---------------------------------------------------------------------------
(* Submission and waiting                                                  *)

\* the step was a parse of a fetch node with a url source of its own
IsFetchParseStep ==
    /\ ev'.type = "parse"
    /\ pages[ev'.node].kind \in FetchKinds
    /\ pages'[ev'.node].url # UrlNone

\* the urls the parse of the step went over, page after page
UrlsOfStep ==
    LET p == pages'[ev'.node]
    IN  Flatten(IF p.url.form = "flat" THEN <<p.url.flat>> ELSE p.url.v)

\* a step of the calling thread that leaves the thread where it was
WaitsInPlace == stack' = stack /\ ~Idle /\ ev'.type # "task_done"

\* C21: a parse of a fetch node is one pass over its urls that only submits:
\* it adds one pending task and one AsyncResult that was never asked for its
\* result per url that is not deduplicated, leaves the tasks and
\* AsyncResults there were as they are, and is over with the step, whether
\* tasks are pending or not.  The calling thread stays where it is only in
\* the loop of a get(), which ItemsPage.parse or the caller itself has
\* called, and in the wait_all loop of DownloadPage.parse.
C21_SubmitNeverWaits ==
    /\ [][IsFetchParseStep =>
            LET n == ev'.node
                old == Len(async_task_pool.tasks)
                new == Len(async_task_pool'.tasks)
                urls == UrlsOfStep
            IN  /\ SubSeq(async_task_pool'.tasks, 1, old) = async_task_pool.tasks
                /\ SubSeq(async_results', 1, Len(async_results)) = async_results
                /\ Len(async_results') - Len(async_results) = new - old
                /\ \A t \in (old + 1)..new :
                      async_task_pool'.tasks[t].result = NOT_FINISHED
                /\ \A a \in (Len(async_results) + 1)..Len(async_results') :
                      async_results'[a].result = NOT_RETURNED
                /\ new - old =
                      IF pages[n].ignore_records THEN Len(urls)
                      ELSE Cardinality(Range(urls) \ pages[n].records)
                /\ \A k \in 1..Len(stack') : stack'[k].op \in {"_perform"}]_vars
    /\ [][WaitsInPlace =>
            \/ /\ Top.op = "get"
               /\ Len(stack) = 1 \/ stack[Len(stack) - 1].op = "ItemsPage.parse"
            \/ Top.op = "DownloadPage.parse" /\ Top.pc = "wait"]_vars

\* a fetch node has submitted a task and returned from its parse while a task
\* submitted before was still pending
C21_Witness ==
    /\ ev.type = "parse"
    /\ KindOf(ev.node) \in FetchKinds
    /\ ev.submitted > 0
    /\ Len(async_task_pool.tasks) > ev.submitted
    /\ \A t \in 1..Len(async_task_pool.tasks) : IsPending(async_task_pool, t)

\* s is t with some of its entries left out
RECURSIVE IsSubSeq(_, _)
IsSubSeq(s, t) ==
    IF s = <<>> THEN TRUE
    ELSE IF t = <<>> THEN FALSE
    ELSE IF Head(s) = Head(t) THEN IsSubSeq(Tail(s), Tail(t))
    ELSE IsSubSeq(s, Tail(t))

\* the page of the url source that bucket b of node n was made for
PageOfBucket(n, b) ==
    LET src == IF pages[n].url.form = "flat" THEN <<pages[n].url.flat>> ELSE pages[n].url.v
    IN  src[((b - 1) % Len(src)) + 1]

\* where an ItemsPage.parse frame is in its input: the items it is through
\* with, and the item it is at
Through(f, b, i) ==
    \/ b <= f.page_idx
    \/ f.pc # "page" /\ b = f.page_idx + 1 /\ i <= f.item_idx
At(f, b, i) == f.pc # "page" /\ b = f.page_idx + 1 /\ i = f.item_idx + 1
Resolved(r) == async_results[r.id].result \notin {NOT_RETURNED, NOT_FINISHED}

\* C22: the AsyncResults in the result of a PagePage stand in the order in
\* which their tasks were submitted, and the urls of the tasks of a bucket
\* are the urls of its page in the page's order; an ItemsPage that a run
\* performs on its father's result calls get() on the item it is at, is
\* through with every AsyncResult before that item, and in a first run has
\* not asked for any AsyncResult after it, whichever tasks have finished.
C22_OrderWithinNode ==
    /\ \A n \in Nodes :
          (KindOf(n) = "PagePage" /\ pages[n].url # UrlNone) =>
              /\ \A i, j \in 1..Len(ItemsOf(n)) :
                    i < j => async_results[ItemsOf(n)[i].id].name
                                < async_results[ItemsOf(n)[j].id].name
              /\ \A b \in 1..Len(pages[n].result) :
                    IsSubSeq([i \in 1..Len(pages[n].result[b]) |->
                                  UrlOf(pages[n].result[b][i])],
                             PageOfBucket(n, b))
    /\ \A k \in ParsesOfRun :
          LET f == stack[k]
          IN  stack[k - 1].kw = None =>
                  /\ (k < Len(stack) /\ stack[k + 1].op = "get") =>
                        \E b \in 1..Len(f.results) : \E i \in 1..Len(f.results[b]) :
                            /\ At(f, b, i)
                            /\ f.results[b][i] = Ref(stack[k + 1].ar)
                  /\ \A b \in 1..Len(f.results) : \A i \in 1..Len(f.results[b]) :
                        /\ Through(f, b, i) => Resolved(f.results[b][i])
                        /\ (calls = 1 /\ ~Through(f, b, i) /\ ~At(f, b, i)) =>
                              async_results[f.results[b][i].id].result = NOT_RETURNED

\* an ItemsPage waits in get() for the second fetch of its father while the
\* third fetch, which it has not asked for, is already over
C22_Witness ==
    \E k \in ParsesOfRun :
        /\ k < Len(stack)
        /\ stack[k + 1].op = "get"
        /\ stack[k + 1].ar = 2
        /\ Pending(2)
        /\ ~Pending(3)
        /\ async_results[3].result = NOT_RETURNED

\* C23: in every run of Actions.perform the start of the pool is the first
\* thing that happens and happens once: the walk is entered after it, every
\* perform of a node comes after it, and every step of the run that submits a
\* task is taken with the pool started.
C23_PoolStartedFirst ==
    /\ Len(trace) > 0 =>
          /\ trace[1] = TraceEvent("pool.run", 0)
          /\ \A i \in 2..Len(trace) : trace[i] # TraceEvent("pool.run", 0)
          /\ \A n \in Nodes : Has("perform", n) => Pos("perform", n) > Pos("pool.run", 0)
    /\ (driver = "actions" /\ ev.type = "parse" /\ ev.submitted > 0) =>
          /\ Has("pool.run", 0)
          /\ Has("perform", ev.node)
          /\ Pos("pool.run", 0) < Pos("perform", ev.node)

\* a node of a run has submitted a task
C23_Witness ==
    /\ driver = "actions"
    /\ ev.type = "parse"
    /\ ev.submitted > 0
    /\ Has("pool.run", 0)
    /\ Has("perform", ev.node)

---------------------------------------------------------------------------
(* The forest that add_page builds                                         *)

\* the nodes of the forest, found from the roots through next_pages
Reachable == Range(TraversalOrder(actions.pages, 1))

\* C24: every node of the forest holds the pool and the header set of the
\* Actions instance it was added to, whether it was added as a root or under
\* a father, and the tasks behind the results of all fetch-type nodes are
\* tasks of that one pool.  Stated of the programs in which every page is
\* added through the one instance `actions`.
C24_SharedPoolAndHeaders ==
    driver # "instances" =>
    \A n \in Reachable :
        /\ pages[n].async_task_pool = actions.async_task_pool
        /\ pages[n].headers = actions.headers
        /\ \A i \in 1..Len(ItemsOf(n)) :
              ItemsOf(n)[i].t = "AsyncResult" =>
                  async_results[ItemsOf(n)[i].id].name \in 1..Len(async_task_pool.tasks)

\* a root and a node that is not a root and not its next page have both
\* submitted a task
C24_Witness ==
    \E n, m \in Reachable :
        /\ n # m
        /\ pages[m].father_page # n
        /\ pages[n].father_page # m
        /\ \E c \in Reachable : pages[c].father_page # 0
        /\ KindOf(n) \in FetchKinds /\ KindOf(m) \in FetchKinds
        /\ Len(ItemsOf(n)) > 0
        /\ Len(ItemsOf(m)) > 0

---------------------------------------------------------------------------
(* Headers of the submitted tasks                                          *)

DefaultFns == {"get_web_html_async", "retrieve_file_async"}
HeadersOf(task) == task.args[Len(task.args)]

\* C25 as stated: every task is submitted with the shared headers of the
\* Actions instance, whichever fetch function its node uses.
C25_Original ==
    \A t \in 1..Len(async_task_pool.tasks) :
        HeadersOf(async_task_pool.tasks[t]) = actions.headers

\* C25 (amended): a task of a node that was constructed without web_get_fn
\* runs the default fetch or download function and is submitted with the
\* shared headers of the Actions instance; a task of a node constructed with
\* a web_get_fn of its own is submitted with the node's own arguments only,
\* without the shared headers.
C25_SharedHeaders ==
    \A t \in 1..Len(async_task_pool.tasks) :
        LET task == async_task_pool.tasks[t]
        IN  IF task.fn \in DefaultFns
            THEN HeadersOf(task) = actions.headers
            ELSE HeadersOf(task) = "unset"

\* the pool holds a task of the default fetch function, submitted with the
\* shared headers, and a task of a fetch function of the caller
C25_Witness ==
    /\ \E t \in 1..Len(async_task_pool.tasks) :
          /\ async_task_pool.tasks[t].fn = "get_web_html_async"
          /\ HeadersOf(async_task_pool.tasks[t]) = actions.headers
    /\ \E t \in 1..Len(async_task_pool.tasks) :
          async_task_pool.tasks[t].fn = "my_get"

---------------------------------------------------------------------------
(* Shape of the result of a fetch-type node                                *)

FetchTypes == {"PagePage", "UrlIdxPagesPage", "DownloadPage"}
IsFlatList(n) == pages[n].url.form = "flat" /\ Len(pages[n].url.flat) > 0
UrlsOfBucket(n, b) ==
    [i \in 1..Len(pages[n].result[b]) |-> UrlOf(pages[n].result[b][i])]

\* C26: the result of a fetch-type node is at every moment a list of
\* buckets, each a list of AsyncResults, and every parse adds whole buckets;
\* a node whose url is a flat list of strings gets exactly one bucket per
\* parse, which holds the tasks for the urls of that list in the list's
\* order: all of them with ignore_records, else those not fetched before.
C26_ResultShape ==
    /\ \A n \in Nodes :
          KindOf(n) \in FetchTypes =>
              \A b \in 1..Len(pages[n].result) : \A i \in 1..Len(pages[n].result[b]) :
                  /\ pages[n].result[b][i].t = "AsyncResult"
                  /\ pages[n].result[b][i].id \in 1..Len(async_results)
    /\ (ev.type = "parse" /\ KindOf(ev.node) \in FetchTypes /\ IsFlatList(ev.node)) =>
          LET n == ev.node
          IN  /\ ev.input = 1
              /\ ev.after = ev.before + 1
              /\ Len(pages[n].result) = ev.after
              /\ IsSubSeq(UrlsOfBucket(n, ev.after), pages[n].url.flat)
              /\ (pages[n].ignore_records /\ KindOf(n) = "PagePage") =>
                    UrlsOfBucket(n, ev.after) = pages[n].url.flat

\* a node with a flat list of two urls has put both fetches into one bucket
C26_Witness ==
    /\ ev.type = "parse"
    /\ KindOf(ev.node) = "PagePage"
    /\ IsFlatList(ev.node)
    /\ Len(pages[ev.node].url.flat) = 2
    /\ Len(pages[ev.node].result) = 1
    /\ Len(pages[ev.node].result[1]) = 2

\* the entries of the forest that hold node n: as a root, or as a next page
RootEntries(n) == {i \in 1..Len(actions.pages) : actions.pages[i].v = n}
NextEntries(n) ==
    {e \in UNION {{<<m, i>> : i \in 1..Len(pages[m].next_pages)} : m \in Nodes} :
        pages[e[1]].next_pages[e[2]].v = n}

\* the nodes found from n by following father_page at most k times
RECURSIVE FathersUpTo(_, _)
FathersUpTo(n, k) ==
    IF k = 0 \/ pages[n].father_page = 0 THEN {}
    ELSE {pages[n].father_page} \cup FathersUpTo(pages[n].father_page, k - 1)

Performs(n) == Cardinality({i \in 1..Len(trace) : trace[i] = TraceEvent("perform", n)})

\* C27: whatever add_page calls built the forest, every node is held by at
\* most one entry of it, its father_page is the node whose next_pages holds
\* it (none for a root), no node is among its own fathers, and a run of
\* Actions.perform performs no node twice.
C27_ForestIsTree ==
    \A n \in Nodes :
        /\ Cardinality(RootEntries(n)) + Cardinality(NextEntries(n)) <= 1
        /\ pages[n].father_page = 0 => NextEntries(n) = {}
        /\ pages[n].father_page # 0 =>
              /\ RootEntries(n) = {}
              /\ \A e \in NextEntries(n) : e[1] = pages[n].father_page
        /\ n \notin FathersUpTo(n, Len(pages))
        /\ Performs(n) <= 1

\* the entries of the forest below and at the dict d, in the order in which
\* a search meets them that reads all keys of a level before it goes below
\* the level's entries, one entry after the other
RECURSIVE SearchOrder(_)
RECURSIVE SearchBelow(_, _)
SearchOrder(d) == d \o SearchBelow(d, 1)
SearchBelow(d, i) ==
    IF i > Len(d) THEN <<>>
    ELSE SearchOrder(pages[d[i].v].next_pages) \o SearchBelow(d, i + 1)

\* the first node of that order registered under name, 0 if there is none
FirstNamed(name) ==
    LET order == SearchOrder(actions.pages)
        hits == {i \in 1..Len(order) : order[i].k = name}
    IN  IF hits = {} THEN 0
        ELSE order[CHOOSE i \in hits : \A j \in hits : i <= j].v

AskedNames == {"a", "b", "c", "items", "dup", "leaf", "x"}

\* C28: get_page(name, self.pages) returns None when no entry of the forest
\* has that name and else the first node registered under it in the order of
\* a search that checks the keys of a level before the next pages of the
\* level's entries; a page added under a father name that two nodes have is
\* put below the node that search finds.
C28_GetPage ==
    \A name \in AskedNames :
        LET found == get_page(pages, name, actions.pages)
        IN  /\ found = FirstNamed(name)
            /\ found = 0 <=> \A n \in Reachable : pages[n].name # name
            /\ \A n \in Reachable :
                  (pages[n].name = "leaf" /\ name = "dup") => pages[n].father_page = found

\* two nodes have one name, the first one met by a walk that goes below each
\* entry at once is not the one get_page returns, and a page was added below
\* the one it returns
C28_Witness ==
    \E n, m \in Reachable :
        /\ n < m
        /\ pages[n].name = pages[m].name
        /\ pages[n].father_page # 0
        /\ pages[m].father_page = 0
        /\ get_page(pages, pages[n].name, actions.pages) = m
        /\ \E c \in Reachable : pages[c].father_page = m
        /\ calls > 0

---------------------------------------------------------------------------
(* ItemsPage: postprocess and fallback                                     *)

\* the step is the postprocess that ends a perform of an ItemsPage
IsItemsProcess == ~Idle /\ Top.op = "ItemsPage.parse" /\ ev'.type = "perform"

\* C29: in a run of Actions.perform, the postprocess of an ItemsPage applies
\* single_page_items_fn once to the matches of each bucket: it maps the
\* buckets that the parse of this perform has added, leaves the buckets that
\* an earlier perform has mapped as they are, and keeps the number and order
\* of the buckets.
C29_MappedOnce ==
    [][(IsItemsProcess /\ driver = "actions") =>
          LET n == Top.node
          IN  /\ Len(pages'[n].result) = Len(pages[n].result)
              /\ \A b \in 1..Len(pages[n].result) :
                    pages'[n].result[b] =
                        IF b <= Top.before
                        THEN pages[n].result[b]
                        ELSE single_page_items_fn(pages[n], pages[n].result[b])]_vars

\* the step has handled an item that is the text of a document
IsDocumentItem == IsItemsItem /\ ev.r.t = "str"

\* what the expression, or the first alternative that selects something,
\* selects in the document of text r
QueryMatches(p, r) == parse_xpath(p, etree_HTML(r))

\* not self.xpath: the node has None, '' or [] for its expression
NoExpression(p) == p.xpath \in {None, Str(<<>>), List(<<>>)}

---------------------------------------------------------------------------
(* The url source of a fetch node                                          *)

\* the step calls the parse of a fetch node: PagePage.parse is over with the
\* step, DownloadPage.parse has resolved its url source and stands before
\* the first page
IsSourceStep ==
    \/ ev'.type = "parse" /\ KindOf(ev'.node) = "PagePage"
    \/ ev'.type = "call" /\ KindOf(ev'.node) = "DownloadPage"

\* the results argument of the call: what Actions.perform was given, and
\* nothing in a call of perform() on the node itself
Supplied == IF driver = "actions" THEN Top.kw ELSE None

\* the source the claim names for node n
ClaimedSource(n) ==
    LET p == pages[n]
    IN  IF p.url = UrlNone
        THEN IF Supplied # None THEN Supplied.v ELSE pages[p.father_page].result
        ELSE IF p.url.form = "flat" THEN <<p.url.flat>> ELSE p.url.v

\* the urls of the tasks the step has submitted
SubmittedUrls ==
    {async_task_pool'.tasks[t].args[1] :
        t \in (Len(async_task_pool.tasks) + 1)..Len(async_task_pool'.tasks)}

SourceCase(n) ==
    /\ ev.type = "parse"
    /\ ev.node = n
    /\ KindOf(n) = "PagePage"
    /\ driver = "actions"
    /\ ev.submitted = 1

---------------------------------------------------------------------------
(* Nodes that a before_func holds back                                     *)

\* the before_func of n, or of a node above it, answers false
HeldBack(n) == \E m \in {n} \cup Fathers(n) : ~Allowed(m)

\* the entry of node n in the results of the run, if there is one
RECURSIVE EntryOf(_)
EntryOf(n) ==
    LET d == IF pages[n].father_page = 0 THEN actions.results
             ELSE EntryOf(pages[n].father_page)
    IN  IF d.t = "dict" /\ DictHas(d.v, pages[n].name)
        THEN DictGet(d.v, pages[n].name)
        ELSE Unbound

\* C32: in a run of Actions.perform a node whose before_func answers false,
\* and every node below it, is never performed, no step of the run changes
\* anything of such a node (its result, its records, the AsyncResults it
\* holds) or reports a parse of it, and the results of a run that returns
\* hold no entry for it.
C32_HeldBackUntouched ==
    /\ [][driver = "actions" =>
            \A n \in Nodes :
                HeldBack(n) =>
                    /\ pages'[n] = pages[n]
                    /\ ev'.type \in {"parse", "call", "perform", "item", "page"} =>
                          ev'.node # n]_vars
    /\ [](driver = "actions" =>
            \A n \in Nodes :
                HeldBack(n) =>
                    /\ ~Has("perform", n)
                    /\ pages[n].result = <<>>
                    /\ ev.type = "run_end" => EntryOf(n).t = "unbound")

\* a run has returned in which the before_func of a root answered false:
\* the root was asked and not performed, its next page, which has no
\* before_func of its own, was not performed either, and another root was
\* performed and has its entry in the results
C32_Witness ==
    /\ ev.type = "run_end"
    /\ \E n, c, m \in Nodes :
          /\ ~Allowed(n)
          /\ Has("before_func", n)
          /\ c \in Children(n)
          /\ pages[c].before_func = "None"
          /\ ~Has("perform", c)
          /\ Has("performed", m)
          /\ Len(pages[m].result) > 0
          /\ DictHas(actions.results.v, pages[m].name)

---------------------------------------------------------------------------
(* add_page: what one call does to the forest                              *)

\* the forest after the first k of the add_page calls that built it
After(k) ==
    Wire([pages |-> ev.heap, actions |-> Actions_init], SubSeq(ev.calls, 1, k), 1)

PageOfCall(k) == IF ev.calls[k].page = 0 THEN k ELSE ev.calls[k].page

\* the node that the father name of call k stands for when the call is
\* made, 0 if no node has the name
FatherOfCall(k) ==
    get_page(After(k - 1).pages, ev.calls[k].father, After(k - 1).actions.pages)

\* call k names a father, and no node of the forest has that name
UnknownFather(k) ==
    /\ ev.calls[k].bad = "no"
    /\ ev.calls[k].father # ""
    /\ FatherOfCall(k) = 0

\* call k has put its page below node f under the name it gave
WiredBelow(k, f) ==
    LET st == After(k)
        n == PageOfCall(k)
    IN  /\ DictHas(st.pages[f].next_pages, ev.calls[k].name)
        /\ DictGet(st.pages[f].next_pages, ev.calls[k].name) = n
        /\ st.pages[n].father_page = f
        /\ st.actions.pages = After(k - 1).actions.pages

\* call k has made its page a root under the name it gave
WiredAsRoot(k) ==
    LET st == After(k)
        n == PageOfCall(k)
    IN  /\ DictHas(st.actions.pages, ev.calls[k].name)
        /\ DictGet(st.actions.pages, ev.calls[k].name) = n
        /\ st.pages[n].father_page = 0
        /\ \A m \in 1..Len(st.pages) :
              st.pages[m].next_pages = After(k - 1).pages[m].next_pages

---------------------------------------------------------------------------
(* Two Actions instances                                                   *)

\* C34: an Actions that was constructed with default arguments starts with
\* an empty forest, and an add_page on it leaves the first instance as it
\* is: its forest, its headers and its pool.
C34_InstancesIndependent ==
    [][/\ (ev'.type = "new_actions" /\ ev'.given = "default") =>
              PagesOf(other_actions)' = <<>>
       /\ ev'.type = "other_add_page" =>
              /\ actions'.pages = actions.pages
              /\ actions'.headers = actions.headers
              /\ actions'.async_task_pool = actions.async_task_pool
              /\ actions'.async_task_pool # other_actions'.async_task_pool]_vars

---------------------------------------------------------------------------
(* The url list of a UrlIdxPagesPage over several parses                   *)

\* C35: every parse of a UrlIdxPagesPage whose url_fn gives k urls, the
\* first and any later one, goes over a url list of exactly k pages and adds
\* exactly k buckets to the node's result.
C35_UrlListStable ==
    (ev.type = "parse" /\ KindOf(ev.node) = "UrlIdxPagesPage") =>
        LET p == pages[ev.node]
            k == Len(IndexUrls(p))
        IN  /\ Len(p.url.v) = k
            /\ ev.input = k
            /\ ev.after = ev.before + k

---------------------------------------------------------------------------
(* ItemsPage: the document an item is read from                            *)

\* C36: ItemsPage.parse reads every item from its own document: the matches
\* an item adds are nodes of the text it is, or of the document of the
\* element it is, an item that is neither adds nothing, and no such item
\* makes parse fail for want of a document.
C36_OwnDocumentOnly ==
    /\ IsItemsItem =>
          \A i \in 1..Len(ev.added) :
              /\ ev.r.t \in {"str", "Element"}
              /\ ev.added[i].doc = (IF ev.r.t = "str" THEN ev.r.s ELSE ev.r.doc)
    /\ (ev.type = "raise" /\ KindOf(ev.node) = "ItemsPage") =>
          ev.error # "UnboundLocalError"

---------------------------------------------------------------------------
(* Downloads to one file                                                   *)

\* the download tasks that have not finished
PendingDownloads ==
    {t \in 1..Len(async_task_pool.tasks) :
        /\ async_task_pool.tasks[t].fn = "retrieve_file_async"
        /\ async_task_pool.tasks[t].result = NOT_FINISHED}

\* C37: no two download tasks that are pending at the same time have the
\* same file to write.
C37_OneWriterPerFile ==
    \A t1, t2 \in PendingDownloads :
        t1 # t2 => async_task_pool.tasks[t1].args[2] # async_task_pool.tasks[t2].args[2]

---------------------------------------------------------------------------
(* The status queue as a lock                                              *)

\* no thread is inside statues_que_opts
NoCallInProgress == \A t \in ThreadIds : threads[t].call.t # "call"

\* C38: once launch_sub_thread was called, the queue holds exactly one status
\* dictionary whenever no statues_que_opts call is in progress: every call,
\* whatever its variable and option, puts back the dictionary it took, so
\* the next call finds one and does not wait forever.
C38_OneDictionary ==
    (task_log.launches > 0 /\ NoCallInProgress) => Len(statuesQue) = 1

---------------------------------------------------------------------------
(* Lines from the input thread to get_input                                *)

\* the dictionary has the line as its "input"
HoldsLine(d, line) ==
    /\ DictHas(d, "input")
    /\ DictGet(d, "input").t = "str"
    /\ DictGet(d, "input").s = line.s

\* the line waits in the status dictionary, in the queue or in a call
Waiting(line) ==
    \/ \E i \in 1..Len(statuesQue) : HoldsLine(statuesQue[i], line)
    \/ \E t \in ThreadIds : threads[t].held /\ HoldsLine(threads[t].dataDict, line)

\* get_input has read the line and not returned yet
InHand(line) ==
    /\ threads[MainThread].ret.t = "str"
    /\ threads[MainThread].ret.s = line.s

\* the get_input calls that returned the line
ReturnsOf(line) ==
    {j \in 1..Len(task_log.returned) : task_log.returned[j].s = line.s}

\* C39: with one input thread and a main thread that only calls get_input,
\* no stored line is lost: every line _wait_for_quit stored either waits in
\* the status dictionary, or is in the hand of the get_input call that read
\* it, or was returned by a get_input call, and by one call only.
C39_NoLineLost ==
    (task_log.launches = 1 /\ task_log.direct = 0) =>
        \A i \in 1..Len(task_log.stored) :
            LET line == task_log.stored[i]
            IN  /\ Waiting(line) \/ InHand(line) \/ ReturnsOf(line) # {}
                /\ Cardinality(ReturnsOf(line)) <= 1

====
